---- MODULE Spec2Model ----
(***************************************************************************)
(* pg_backuper: the backup executor (pkg/backup/executor.go), the parallel *)
(* multi-backend uploader (pkg/storage/multi.go), tag-based and age-based  *)
(* rotation (pkg/rotation), the tier scheduler (pkg/backup/scheduler.go),  *)
(* WithRetry and the backend factory (pkg/storage), the backup file names  *)
(* (pkg/rotation/filename.go), the storage backends and main.              *)
(*                                                                         *)
(* The specifications share the variables below:                           *)
(*   Spec          one BackupDatabase run: setup, the per-tier dump and    *)
(*                 upload loop, the overall verdict, rotation per backend, *)
(*                 closing the backends;                                   *)
(*   SpecUpload    one direct call of MultiUploader.Upload;                *)
(*   SpecMulti     one call of Upload or of MultiUploader.Delete, with     *)
(*                 fair scheduling of the goroutines;                      *)
(*   SpecSched     one call of GetDueTiers / IsBackupDue on a directory;   *)
(*   SpecRetry     one call of WithRetry;                                  *)
(*   SpecFactory   one call of Factory.CreateAll;                          *)
(*   SpecAge       one call of RotateBackups;                              *)
(*   SpecAgeShared the same, on a directory shared by several databases;   *)
(*   SpecFilename  a file name generated or found, then parsed;            *)
(*   SpecBackend   Write, List and Exists on one backend of each kind;     *)
(*   SpecMain      main's loop over the configured databases;              *)
(*   SpecAgree     one BackupDatabase run, then GetDueTiers.               *)
(***************************************************************************)
EXTENDS Integers, Sequences, FiniteSets, TLC

\* ---------------------------------------------------------------- bounds
\* backends of a BackupDatabase run
MaxExecBackends == 2
\* backends handed to a direct Upload call
MaxUploadBackends == 3
\* tiers (a prefix of TierOrder) used by a BackupDatabase run
MaxTiers == 2
\* files per tier already on every backend when a run starts
MaxFiles == 2
\* largest retention count configured in a run
MaxRetention == 2
\* List/Delete calls that fail during the rotation of one run
MaxRotFaults == 1
\* files in the backup directory inspected by the scheduler
MaxSchedFiles == 2
\* largest MaxAttempts of a retry configuration
MaxRetryAttempts == 3
\* largest InitialDelay and MaxDelay of a retry configuration (time units)
MaxRetryDelay == 4
\* files in the backup directory rotated by RotateBackups
MaxAgeFiles == 3
\* configs handed to Factory.CreateAll
MaxFactoryConfigs == 4

\* ------------------------------------------------------------- variables
VARIABLES
    pc,             \* position of the calling goroutine
    dueTiers,       \* BackupDatabase argument dueTiers
    retentionTiers, \* db.GetRetentionTiers(cfg.GlobalDefaults)
    backends,       \* the []storage.Backend of the run / of the Upload call
    store,          \* per backend: the files it holds
    result,         \* backup.Result being built
    tierIdx,        \* index of the for-loop over dueTiers
    uploadTier,     \* tier tag of the destPath being uploaded
    uploadRet,      \* where Upload returns to
    spawnIdx,       \* index of the for-loop over backends inside Upload
    wg,             \* sync.WaitGroup counter
    gpc,            \* per backend: position of its upload goroutine
    gerr,           \* per backend: err returned by its b.Write
    resultsChan,    \* buffered channel of storage.Result
    uploadResults,  \* slice returned by Upload
    writeCalls,     \* per backend: number of b.Write calls (history)
    rotB,           \* index of the for-loop over backends in rotation
    rotT,           \* index of the for-loop over retentionTiers
    rotQueue,       \* filesToDelete not yet attempted
    listLog,        \* backend.List calls made (history)
    deleteLog,      \* backend.Delete calls made (history)
    rotReturned,    \* per backend: what ApplyRetentionWithBackend returned
    closed,         \* per backend: number of Close calls
    backupFiles,    \* files in cfg.BackupDir seen by the scheduler
    now,            \* GetDueTiers argument now (seconds)
    globErr,        \* filepath.Glob rejects the pattern (ErrBadPattern)
    schedule,       \* TierSchedule returned by GetDueTiers
    schedErr,       \* error returned by GetDueTiers
    backupDue,      \* (bool, error) returned by IsBackupDue
    rcfg,           \* WithRetry argument cfg (RetryConfig)
    attempt,        \* WithRetry loop variable attempt
    delay,          \* WithRetry local delay
    lastErr,        \* WithRetry local lastErr
    opErrs,         \* what each call of op returned (history)
    waits,          \* the waits that elapsed, in order (history)
    ctx,            \* the caller's context: canceled or not, and when
    retryResult,    \* error returned by WithRetry
    fconfigs,       \* Factory.CreateAll argument configs
    fIdx,           \* index of the for-loop over configs
    fBackends,      \* CreateAll local backends
    fCreated,       \* configs a constructor was run for (history)
    fReturn,        \* ([]Backend, error) returned by CreateAll
    errorCount,     \* DeleteFiles local errorCount
    rotateErr,      \* error returned by RotateBackups
    fnArgs,         \* arguments of the filename generator under study
    fnFile,         \* the backup filename generated or found on disk
    fnParsed,       \* (components, error) returned by ParseBackupFilename
    fnDate,         \* (time, error) returned by ExtractDateFromFilename
    bkind,          \* Type() of the storage backend under study
    objects,        \* the files / objects that backend holds
    bcall,          \* the last Backend method called and its arguments
    bret,           \* what that call returned
    databases,      \* cfg.Databases as main sees them
    dbIdx,          \* index of main's for-loop over cfg.Databases
    dumpLog,        \* what main did for each database (history)
    counts,         \* main's successCount and failureCount
    inBackupDir,    \* the backends whose directory is cfg.BackupDir
    method          \* the MultiUploader method called: Upload or Delete

vars == << pc, dueTiers, retentionTiers, backends, store, result, tierIdx,
           uploadTier, uploadRet, spawnIdx, wg, gpc, gerr, resultsChan,
           uploadResults, writeCalls, rotB, rotT, rotQueue, listLog,
           deleteLog, rotReturned, closed, backupFiles, now, globErr,
           schedule, schedErr, backupDue, rcfg, attempt, delay, lastErr,
           opErrs, waits, ctx, retryResult, fconfigs, fIdx, fBackends,
           fCreated, fReturn, errorCount, rotateErr, fnArgs, fnFile,
           fnParsed, fnDate, bkind, objects, bcall, bret, databases, dbIdx,
           dumpLog, counts, inBackupDir, method >>

execVars   == << dueTiers, retentionTiers, result, tierIdx >>
uploadVars == << uploadTier, uploadRet, spawnIdx, wg, gpc, gerr,
                 resultsChan, uploadResults, writeCalls >>
rotVars    == << rotB, rotT, rotQueue, listLog, deleteLog, rotReturned >>
schedVars  == << backupFiles, now, globErr, schedule, schedErr, backupDue >>
retryVars  == << rcfg, attempt, delay, lastErr, opErrs, waits, ctx,
                 retryResult >>
factoryVars == << fconfigs, fIdx, fBackends, fCreated, fReturn >>
ageVars    == << errorCount, rotateErr >>
filenameVars == << fnArgs, fnFile, fnParsed, fnDate >>
backendVars == << bkind, objects, bcall, bret >>
mainVars   == << databases, dbIdx, dumpLog, counts >>
agreeVars  == << inBackupDir >>
multiVars  == << method >>
otherVars  == << filenameVars, backendVars, mainVars, agreeVars, multiVars >>

\* ------------------------------------------------------------- constants
\* TierOrder, scheduler.go
TierOrder == << "hourly", "daily", "weekly", "monthly", "quarterly", "yearly" >>

Hour == 3600

\* TierInterval, scheduler.go (seconds)
TierInterval(t) ==
    CASE t = "hourly"    -> 1 * Hour
      [] t = "daily"     -> 24 * Hour
      [] t = "weekly"    -> 7 * 24 * Hour
      [] t = "monthly"   -> 30 * 24 * Hour
      [] t = "quarterly" -> 90 * 24 * Hour
      [] t = "yearly"    -> 365 * 24 * Hour

Range(s) == { s[i] : i \in 1..Len(s) }

MaxOf(a, b) == IF a >= b THEN a ELSE b

BackendIds ==
    1..MaxOf(MaxOf(MaxExecBackends, MaxUploadBackends), MaxFactoryConfigs)

\* errors a backend's Write, List or Delete can return (errors.go)
NoErr == "nil"
BackendErrs == { "ErrConnFailed" }

\* mutant: every error is worth another attempt
IsRetryable_all(err) == TRUE

\* IsRetryable, errors.go
IsRetryable(err) == err \in { "ErrConnFailed", "ErrTimeout" }

\* IsCritical, errors.go
IsCritical(err) == err \in { "ErrAuthFailed", "ErrInvalidConfig" }

\* ------------------------------------------------------ MultiUploader.Upload
\* mutant: err is a variable shared by the goroutines, so a result carries
\* the outcome of the first backend's Write
MakeResult_sharedErr(b, err) ==
    [ BackendName |-> b, Success |-> (gerr[backends[1]] = NoErr),
      Error |-> gerr[backends[1]] ]

\* the storage.Result a goroutine builds from its own backend and err
MakeResult(b, err) ==
    [ BackendName |-> b, Success |-> (err = NoErr), Error |-> err ]

\* the file a successful Write of the run leaves on the backend
NewFile(tier) == [ tier |-> tier, ts |-> MaxFiles + 1, size |-> 1 ]

\* for _, backend := range backends { wg.Add(1); go func(b Backend) {...}(backend) }
UploadSpawn ==
    /\ pc = "upload_spawn"
    /\ spawnIdx <= Len(backends)
    /\ wg' = wg + 1
    /\ gpc' = [gpc EXCEPT ![backends[spawnIdx]] = "running"]
    /\ spawnIdx' = spawnIdx + 1
    /\ UNCHANGED << pc, backends, store, execVars, uploadTier, uploadRet, gerr,
                    resultsChan, uploadResults, writeCalls, rotVars, closed,
                    schedVars, retryVars, factoryVars,
                    ageVars, otherVars >>

\* the loop over backends is finished: the caller reaches wg.Wait()
UploadSpawnDone ==
    /\ pc = "upload_spawn"
    /\ spawnIdx > Len(backends)
    /\ pc' = "upload_wait"
    /\ UNCHANGED << backends, store, execVars, uploadVars, rotVars, closed,
                    schedVars, retryVars, factoryVars,
                    ageVars, otherVars >>

\* err := b.Write(ctx, sourcePath, destPath) returns
GoWrite(b) ==
    /\ method = "Upload"
    /\ gpc[b] = "running"
    /\ \E err \in {NoErr} \cup BackendErrs :
          /\ gerr' = [gerr EXCEPT ![b] = err]
          /\ store' = IF err = NoErr
                         THEN [store EXCEPT ![b] = @ \cup {NewFile(uploadTier)}]
                         ELSE store
    /\ writeCalls' = [writeCalls EXCEPT ![b] = @ + 1]
    /\ gpc' = [gpc EXCEPT ![b] = "written"]
    /\ UNCHANGED << pc, backends, execVars, uploadTier, uploadRet, spawnIdx, wg,
                    resultsChan, uploadResults, rotVars, closed, schedVars,
                    retryVars, factoryVars,
                    ageVars, otherVars >>

\* b.Write is called and never returns (a hung backend)
GoWriteHang(b) ==
    /\ method = "Upload"
    /\ gpc[b] = "running"
    /\ writeCalls' = [writeCalls EXCEPT ![b] = @ + 1]
    /\ gpc' = [gpc EXCEPT ![b] = "hung"]
    /\ UNCHANGED << pc, backends, store, execVars, uploadTier, uploadRet,
                    spawnIdx, wg, gerr, resultsChan, uploadResults, rotVars,
                    closed, schedVars,
                    retryVars, factoryVars,
                    ageVars, otherVars >>

\* err := b.Delete(ctx, path) returns (MultiUploader.Delete, whose goroutines
\* and caller otherwise take the same steps as Upload's)
GoDelete(b) ==
    /\ method = "Delete"
    /\ gpc[b] = "running"
    /\ \E err \in {NoErr} \cup BackendErrs :
          /\ gerr' = [gerr EXCEPT ![b] = err]
          /\ store' = IF err = NoErr
                         THEN [store EXCEPT ![b] = @ \ {NewFile(uploadTier)}]
                         ELSE store
    /\ gpc' = [gpc EXCEPT ![b] = "written"]
    /\ UNCHANGED << pc, backends, execVars, uploadTier, uploadRet, spawnIdx, wg,
                    resultsChan, uploadResults, writeCalls, rotVars, closed,
                    schedVars, retryVars, factoryVars, ageVars, otherVars >>

\* b.Delete is called and never returns
GoDeleteHang(b) ==
    /\ method = "Delete"
    /\ gpc[b] = "running"
    /\ gpc' = [gpc EXCEPT ![b] = "hung"]
    /\ UNCHANGED << pc, backends, store, execVars, uploadTier, uploadRet,
                    spawnIdx, wg, gerr, resultsChan, uploadResults, writeCalls,
                    rotVars, closed, schedVars, retryVars, factoryVars,
                    ageVars, otherVars >>

\* mutant: resultsChan := make(chan Result, 0*len(backends)), unbuffered
ChanCapacity_unbuffered == 0 * Len(backends)

\* resultsChan := make(chan Result, len(backends))
ChanCapacity == Len(backends)

\* resultsChan <- result (the channel has room for len(backends) results)
GoSend(b) ==
    /\ gpc[b] = "written"
    /\ Len(resultsChan) < ChanCapacity
    /\ resultsChan' = Append(resultsChan, MakeResult(b, gerr[b]))
    /\ gpc' = [gpc EXCEPT ![b] = "sent"]
    /\ UNCHANGED << pc, backends, store, execVars, uploadTier, uploadRet,
                    spawnIdx, wg, gerr, uploadResults, writeCalls, rotVars,
                    closed, schedVars,
                    retryVars, factoryVars,
                    ageVars, otherVars >>

\* defer wg.Done()
GoDone(b) ==
    /\ gpc[b] = "sent"
    /\ wg' = wg - 1
    /\ gpc' = [gpc EXCEPT ![b] = "done"]
    /\ UNCHANGED << pc, backends, store, execVars, uploadTier, uploadRet,
                    spawnIdx, gerr, resultsChan, uploadResults, writeCalls,
                    rotVars, closed, schedVars,
                    retryVars, factoryVars,
                    ageVars, otherVars >>

\* mutant: the caller does not wait for the goroutines
WaitReleased_noBarrier == TRUE

\* wg.Wait() lets the caller through
WaitReleased == wg = 0

\* wg.Wait(); close(resultsChan); for result := range resultsChan {...}; return
UploadReturn ==
    /\ pc = "upload_wait"
    /\ WaitReleased
    /\ uploadResults' = resultsChan
    /\ resultsChan' = << >>
    /\ pc' = uploadRet
    /\ UNCHANGED << backends, store, execVars, uploadTier, uploadRet, spawnIdx,
                    wg, gpc, gerr, writeCalls, rotVars, closed, schedVars,
                    retryVars, factoryVars,
                    ageVars, otherVars >>

\* a caller invokes Upload(ctx, backends, sourcePath, destPath)
UploadCallState(tier, ret) ==
    /\ uploadTier' = tier
    /\ uploadRet' = ret
    /\ spawnIdx' = 1
    /\ wg' = 0
    /\ gpc' = [b \in BackendIds |-> "none"]
    /\ gerr' = [b \in BackendIds |-> NoErr]
    /\ resultsChan' = << >>
    /\ uploadResults' = << >>

\* ------------------------------------------------------- backend contents
\* sort.Slice(files, ModTime.After): newest first (local.go, Backend.List)
RECURSIVE SortNewestFirst(_)
SortNewestFirst(S) ==
    IF S = {} THEN << >>
    ELSE LET newest == CHOOSE f \in S : \A g \in S : g.ts <= f.ts
         IN  << newest >> \o SortNewestFirst(S \ {newest})

\* Backend.List(ctx, "<db>--<tier>--*.backup"): the non-empty files carrying
\* the tier tag, newest first
BackendList(files, tier) ==
    SortNewestFirst({ f \in files : f.tier = tier /\ f.size > 0 })

\* the tiers a BackupDatabase run works with
Tiers == { TierOrder[i] : i \in 1..MaxTiers }

\* k files of every tier, written at times 1..k
InitialFiles(k) == { [tier |-> t, ts |-> i, size |-> 1] : t \in Tiers, i \in 1..k }

\* ------------------------------------------------------------ BackupDatabase
\* the retention configurations of a run: the first n tiers of TierOrder,
\* each with the same retention count r
RetentionConfigs ==
    { [i \in 1..n |-> [Tier |-> TierOrder[i], Retention |-> r]] :
        n \in 0..MaxTiers, r \in 0..MaxRetention }

EmptyResult ==
    [ Success |-> FALSE, Skipped |-> FALSE, TiersCompleted |-> << >>,
      TiersFailed |-> << >>, BackendResults |-> << >>, Error |-> NoErr ]

\* if len(dueTiers) == 0 { result.Skipped = true; result.Success = true; return }
ExecSkip ==
    /\ pc = "start"
    /\ Len(dueTiers) = 0
    /\ result' = [result EXCEPT !.Skipped = TRUE, !.Success = TRUE]
    /\ pc' = "done"
    /\ UNCHANGED << dueTiers, retentionTiers, tierIdx, backends, store,
                    uploadVars, rotVars, closed, schedVars,
                    retryVars, factoryVars,
                    ageVars, otherVars >>

\* GetPgpassPath or ValidatePgpassPermissions fails: return before any backend
ExecPgpassFail ==
    /\ pc = "start"
    /\ Len(dueTiers) > 0
    /\ result' = [result EXCEPT !.Error = "pgpass"]
    /\ pc' = "done"
    /\ UNCHANGED << dueTiers, retentionTiers, tierIdx, backends, store,
                    uploadVars, rotVars, closed, schedVars,
                    retryVars, factoryVars,
                    ageVars, otherVars >>

\* initializeBackends fails: return, nothing to close
ExecInitBackendsFail ==
    /\ pc = "start"
    /\ Len(dueTiers) > 0
    /\ result' = [result EXCEPT !.Error = "backends"]
    /\ pc' = "done"
    /\ UNCHANGED << dueTiers, retentionTiers, tierIdx, backends, store,
                    uploadVars, rotVars, closed, schedVars,
                    retryVars, factoryVars,
                    ageVars, otherVars >>

\* backends, err := initializeBackends(...); defer closeBackends(backends)
ExecInitBackends ==
    /\ pc = "start"
    /\ Len(dueTiers) > 0
    /\ \E n \in 1..MaxExecBackends : backends' = [i \in 1..n |-> i]
    /\ pc' = "mkdir"
    /\ UNCHANGED << execVars, store, uploadVars, rotVars, closed, schedVars,
                    retryVars, factoryVars,
                    ageVars, otherVars >>

\* mutant: the early return skips the deferred close
ExecMkdirFail_noClose ==
    /\ pc = "mkdir"
    /\ result' = [result EXCEPT !.Error = "tempdir"]
    /\ pc' = "done"
    /\ UNCHANGED << dueTiers, retentionTiers, tierIdx, backends, store,
                    uploadVars, rotVars, closed, schedVars, retryVars,
                    factoryVars, ageVars, otherVars >>

\* os.MkdirAll(tempDir) fails: return (the deferred close runs)
ExecMkdirFail ==
    /\ pc = "mkdir"
    /\ result' = [result EXCEPT !.Error = "tempdir"]
    /\ pc' = "closing"
    /\ UNCHANGED << dueTiers, retentionTiers, tierIdx, backends, store,
                    uploadVars, rotVars, closed, schedVars,
                    retryVars, factoryVars,
                    ageVars, otherVars >>

ExecMkdirOk ==
    /\ pc = "mkdir"
    /\ pc' = "tier_loop"
    /\ UNCHANGED << execVars, backends, store, uploadVars, rotVars, closed,
                    schedVars, retryVars, factoryVars,
                    ageVars, otherVars >>

\* pg_dump failed, left no file, or left an empty file: the tier failed
DumpFailures == { "cmdErr", "statErr", "empty" }

\* mutant: a tier whose dump failed is skipped without being recorded
ExecDumpFailed_notRecorded ==
    /\ pc = "tier_loop"
    /\ tierIdx <= Len(dueTiers)
    /\ tierIdx' = tierIdx + 1
    /\ UNCHANGED << pc, dueTiers, retentionTiers, result, backends, store,
                    uploadVars, rotVars, closed, schedVars, retryVars,
                    factoryVars, ageVars, otherVars >>

ExecDumpFailed ==
    /\ pc = "tier_loop"
    /\ tierIdx <= Len(dueTiers)
    /\ \E why \in DumpFailures :
          result' = [result EXCEPT !.TiersFailed = Append(@, dueTiers[tierIdx])]
    /\ tierIdx' = tierIdx + 1
    /\ UNCHANGED << pc, dueTiers, retentionTiers, backends, store, uploadVars,
                    rotVars, closed, schedVars,
                    retryVars, factoryVars,
                    ageVars, otherVars >>

\* the dump is non-empty: uploadResults := uploader.Upload(ctx, backends, ...)
ExecDumpOk ==
    /\ pc = "tier_loop"
    /\ tierIdx <= Len(dueTiers)
    /\ UploadCallState(dueTiers[tierIdx], "decide")
    /\ pc' = "upload_spawn"
    /\ UNCHANGED << execVars, backends, store, writeCalls, rotVars, closed,
                    schedVars, retryVars, factoryVars,
                    ageVars, otherVars >>

\* mutant: the tier counts as uploaded only when every backend took the file
HasSuccess_all(results) == \A i \in 1..Len(results) : results[i].Success

\* hasSuccess: some upload result has Success
HasSuccess(results) == \E i \in 1..Len(results) : results[i].Success

\* result.BackendResults[tier] = uploadResults; the tier is completed when at
\* least one backend took the file, failed otherwise
ExecDecide ==
    /\ pc = "decide"
    /\ LET tier == dueTiers[tierIdx]
           r1   == [result EXCEPT !.BackendResults = (tier :> uploadResults) @@ @]
       IN  result' = IF HasSuccess(uploadResults)
                        THEN [r1 EXCEPT !.TiersCompleted = Append(@, tier)]
                        ELSE [r1 EXCEPT !.TiersFailed = Append(@, tier)]
    /\ tierIdx' = tierIdx + 1
    /\ pc' = "tier_loop"
    /\ UploadCallState("none", "none")
    /\ UNCHANGED << dueTiers, retentionTiers, backends, store, writeCalls,
                    rotVars, closed, schedVars,
                    retryVars, factoryVars,
                    ageVars, otherVars >>

\* mutant: the run fails only when a tier failed and none completed
OverallResult_lenient(r, nDue) ==
    IF Len(r.TiersFailed) > 0 /\ Len(r.TiersCompleted) = 0
       THEN [r EXCEPT !.Error = "tiers_failed"]
       ELSE [r EXCEPT !.Success = TRUE]

\* "Check overall success": any failed tier makes the run failed
OverallResult(r, nDue) ==
    IF Len(r.TiersFailed) > 0
       THEN [r EXCEPT !.Error = "tiers_failed"]
       ELSE [r EXCEPT !.Success = TRUE]

\* mutant: rotation runs after every run, as in the single-directory executor
ShouldRotate_always(r) == TRUE

\* "Perform rotation on each backend only if at least one backup succeeded"
ShouldRotate(r) == Len(r.TiersCompleted) > 0

\* after the loop: the verdict, then the rotation gate
ExecVerdict ==
    /\ pc = "tier_loop"
    /\ tierIdx > Len(dueTiers)
    /\ result' = OverallResult(result, Len(dueTiers))
    /\ IF ShouldRotate(result)
          THEN /\ retentionTiers' \in RetentionConfigs
               /\ pc' = IF Len(retentionTiers') = 0 THEN "closing" ELSE "rotate"
          ELSE /\ retentionTiers' = retentionTiers
               /\ pc' = "closing"
    /\ UNCHANGED << dueTiers, tierIdx, backends, store, uploadVars, rotVars,
                    closed, schedVars,
                    retryVars, factoryVars,
                    ageVars, otherVars >>

\* closeBackends(backends), deferred: every return path after construction
ExecClose ==
    /\ pc = "closing"
    /\ closed' = [b \in BackendIds |->
                     IF b \in Range(backends) THEN closed[b] + 1 ELSE closed[b]]
    /\ pc' = "done"
    /\ UNCHANGED << execVars, backends, store, uploadVars, rotVars, schedVars,
                    retryVars, factoryVars,
                    ageVars, otherVars >>

\* ------------------------------------------------- ApplyRetentionWithBackend
\* mutant: the listing is taken to be oldest first, as in ApplyRetention
FilesToDelete_oldestFirst(files, retention) ==
    IF Len(files) <= retention THEN << >>
    ELSE SubSeq(files, 1, Len(files) - retention)

\* filesToDelete := files[tier.Retention:] when len(files) > tier.Retention
FilesToDelete(files, retention) ==
    IF Len(files) <= retention THEN << >>
    ELSE SubSeq(files, retention + 1, Len(files))

\* failed List/Delete calls so far
RotFaults ==
    Cardinality({ i \in 1..Len(listLog) : listLog[i].err # NoErr })
  + Cardinality({ i \in 1..Len(deleteLog) : deleteLog[i].err # NoErr })

\* the errors the next List/Delete call may return
RotErrs == IF RotFaults < MaxRotFaults THEN BackendErrs ELSE {}

\* fmt.Errorf("failed to list files for tier %s: %w", tier.Tier, err)
ListFailed(tier) == "failed to list files for tier " \o tier

\* mutant: a failed listing is logged and the loop goes on to the next tier
RotListFail_skipTier ==
    /\ pc = "rotate"
    /\ rotB <= Len(backends)
    /\ rotT <= Len(retentionTiers)
    /\ \E err \in RotErrs :
          listLog' = Append(listLog, [backend |-> backends[rotB],
                                      tier |-> retentionTiers[rotT].Tier,
                                      err |-> err, files |-> << >>])
    /\ rotT' = rotT + 1
    /\ UNCHANGED << pc, execVars, backends, store, uploadVars, rotB, rotQueue,
                    deleteLog, rotReturned, closed, schedVars, retryVars,
                    factoryVars, ageVars, otherVars >>

\* mutant: a failed listing on one backend ends the loop over the backends
\* and fails the run
RotListFail_abortRun ==
    /\ pc = "rotate"
    /\ rotB <= Len(backends)
    /\ rotT <= Len(retentionTiers)
    /\ LET b == backends[rotB]
           tier == retentionTiers[rotT]
       IN  /\ \E err \in RotErrs :
                listLog' = Append(listLog, [backend |-> b, tier |-> tier.Tier,
                                            err |-> err, files |-> << >>])
           /\ rotReturned' = [rotReturned EXCEPT ![b] = ListFailed(tier.Tier)]
           /\ result' = [result EXCEPT !.Success = FALSE,
                                       !.Error = ListFailed(tier.Tier)]
    /\ rotB' = Len(backends) + 1
    /\ rotT' = 1
    /\ UNCHANGED << pc, dueTiers, retentionTiers, tierIdx, backends, store,
                    uploadVars, rotQueue, deleteLog, closed, schedVars,
                    retryVars, factoryVars, ageVars, otherVars >>

\* the loop over backends reaches a backend: ApplyRetentionWithBackend starts
\* its loop over retentionTiers, and backend.List for the tier fails:
\* return fmt.Errorf("failed to list files for tier ...")
RotListFail ==
    /\ pc = "rotate"
    /\ rotB <= Len(backends)
    /\ rotT <= Len(retentionTiers)
    /\ LET b == backends[rotB]
           tier == retentionTiers[rotT]
       IN  /\ \E err \in RotErrs :
                listLog' = Append(listLog, [backend |-> b, tier |-> tier.Tier,
                                            err |-> err, files |-> << >>])
           /\ rotReturned' = [rotReturned EXCEPT ![b] = ListFailed(tier.Tier)]
    /\ rotB' = rotB + 1
    /\ rotT' = 1
    /\ UNCHANGED << pc, execVars, backends, store, uploadVars, rotQueue,
                    deleteLog, closed, schedVars,
                    retryVars, factoryVars,
                    ageVars, otherVars >>

\* backend.List succeeds; nothing to delete -> continue with the next tier,
\* otherwise the files beyond the retention count are queued for Delete
RotList ==
    /\ pc = "rotate"
    /\ rotB <= Len(backends)
    /\ rotT <= Len(retentionTiers)
    /\ LET b == backends[rotB]
           tier == retentionTiers[rotT]
           files == BackendList(store[b], tier.Tier)
           doomed == FilesToDelete(files, tier.Retention)
       IN  /\ listLog' = Append(listLog, [backend |-> b, tier |-> tier.Tier,
                                          err |-> NoErr, files |-> files])
           /\ rotQueue' = doomed
           /\ IF doomed = << >>
                 THEN /\ rotT' = rotT + 1
                      /\ pc' = "rotate"
                 ELSE /\ rotT' = rotT
                      /\ pc' = "rotate_delete"
    /\ UNCHANGED << execVars, backends, store, uploadVars, rotB, deleteLog,
                    rotReturned, closed, schedVars,
                    retryVars, factoryVars,
                    ageVars, otherVars >>

\* mutant: the first Delete that fails ends the rotation of the backend
\* with an error
RotDelete_abortOnError ==
    /\ pc = "rotate_delete"
    /\ rotQueue # << >>
    /\ LET b == backends[rotB]
           file == Head(rotQueue)
       IN  \E err \in {NoErr} \cup RotErrs :
              /\ deleteLog' = Append(deleteLog, [backend |-> b, file |-> file,
                                                 err |-> err])
              /\ store' = IF err = NoErr
                             THEN [store EXCEPT ![b] = @ \ {file}]
                             ELSE store
              /\ IF err # NoErr
                    THEN /\ rotReturned' = [rotReturned EXCEPT ![b] = "delete_error"]
                         /\ rotQueue' = << >>
                         /\ rotB' = rotB + 1
                         /\ rotT' = 1
                         /\ pc' = "rotate"
                    ELSE /\ rotReturned' = rotReturned
                         /\ rotQueue' = Tail(rotQueue)
                         /\ rotB' = rotB
                         /\ IF Len(rotQueue) = 1
                               THEN /\ rotT' = rotT + 1
                                    /\ pc' = "rotate"
                               ELSE /\ rotT' = rotT
                                    /\ pc' = "rotate_delete"
    /\ UNCHANGED << execVars, backends, uploadVars, listLog, closed, schedVars,
                    retryVars, factoryVars, ageVars, otherVars >>

\* backend.Delete(ctx, file.Path) for the next queued file; an error is
\* logged and the loop goes on
RotDelete ==
    /\ pc = "rotate_delete"
    /\ rotQueue # << >>
    /\ LET b == backends[rotB]
           file == Head(rotQueue)
       IN  \E err \in {NoErr} \cup RotErrs :
              /\ deleteLog' = Append(deleteLog, [backend |-> b, file |-> file,
                                                 err |-> err])
              /\ store' = IF err = NoErr
                             THEN [store EXCEPT ![b] = @ \ {file}]
                             ELSE store
    /\ rotQueue' = Tail(rotQueue)
    /\ IF Len(rotQueue) = 1
          THEN /\ rotT' = rotT + 1
               /\ pc' = "rotate"
          ELSE /\ rotT' = rotT
               /\ pc' = "rotate_delete"
    /\ UNCHANGED << execVars, backends, uploadVars, rotB, listLog, rotReturned,
                    closed, schedVars,
                    retryVars, factoryVars,
                    ageVars, otherVars >>

\* the loop over retentionTiers is over: return nil; next backend
RotReturn ==
    /\ pc = "rotate"
    /\ rotB <= Len(backends)
    /\ rotT > Len(retentionTiers)
    /\ rotReturned' = [rotReturned EXCEPT ![backends[rotB]] = "nil"]
    /\ rotB' = rotB + 1
    /\ rotT' = 1
    /\ UNCHANGED << pc, execVars, backends, store, uploadVars, rotQueue,
                    listLog, deleteLog, closed, schedVars,
                    retryVars, factoryVars,
                    ageVars, otherVars >>

\* every backend has been rotated: BackupDatabase returns
RotAllDone ==
    /\ pc = "rotate"
    /\ rotB > Len(backends)
    /\ pc' = "closing"
    /\ UNCHANGED << execVars, backends, store, uploadVars, rotVars, closed,
                    schedVars, retryVars, factoryVars,
                    ageVars, otherVars >>

\* ------------------------------------------------------------ specifications
\* a result no call has produced yet
NotReturned == "not_returned"

\* a nil error of a storage backend call; such an error is the chain of its
\* messages, outermost first
Nil == << >>

IdleUpload ==
    /\ uploadTier = "none"
    /\ uploadRet = "none"
    /\ spawnIdx = 1
    /\ wg = 0
    /\ gpc = [b \in BackendIds |-> "none"]
    /\ gerr = [b \in BackendIds |-> NoErr]
    /\ resultsChan = << >>
    /\ uploadResults = << >>
    /\ writeCalls = [b \in BackendIds |-> 0]

IdleRotation ==
    /\ rotB = 1
    /\ rotT = 1
    /\ rotQueue = << >>
    /\ listLog = << >>
    /\ deleteLog = << >>
    /\ rotReturned = [b \in BackendIds |-> "not_called"]

IdleRetry ==
    /\ rcfg = [MaxAttempts |-> 0, InitialDelay |-> 0, MaxDelay |-> 0,
               BackoffFactor |-> [num |-> 1, den |-> 1]]
    /\ attempt = 1
    /\ delay = 0
    /\ lastErr = NoErr
    /\ opErrs = << >>
    /\ waits = << >>
    /\ ctx = [done |-> FALSE, duringWait |-> FALSE, opCallsThen |-> 0]
    /\ retryResult = NotReturned

IdleFactory ==
    /\ fconfigs = << >>
    /\ fIdx = 1
    /\ fBackends = << >>
    /\ fCreated = << >>
    /\ fReturn = NotReturned

IdleAge ==
    /\ errorCount = 0
    /\ rotateErr = NotReturned

IdleFilename ==
    /\ fnArgs = NotReturned
    /\ fnFile = << >>
    /\ fnParsed = NotReturned
    /\ fnDate = NotReturned

IdleBackend ==
    /\ bkind = "none"
    /\ objects = {}
    /\ bcall = [op |-> "none", arg |-> << >>]
    /\ bret = [value |-> Nil, err |-> Nil]

IdleMain ==
    /\ databases = << >>
    /\ dbIdx = 1
    /\ dumpLog = << >>
    /\ counts = [success |-> 0, failure |-> 0]

IdleOther ==
    /\ IdleFilename
    /\ IdleBackend
    /\ IdleMain
    /\ inBackupDir = {}
    /\ method = "Upload"

IdleSched ==
    /\ backupFiles = {}
    /\ now = 0
    /\ globErr = FALSE
    /\ schedule = [Due |-> << >>, Next |-> << >>]
    /\ schedErr = NotReturned
    /\ backupDue = NotReturned

\* the due-tier lists of a run: the first n tiers of TierOrder
DueLists == { [i \in 1..n |-> TierOrder[i]] : n \in 0..MaxTiers }

Init ==
    /\ pc = "start"
    /\ dueTiers \in DueLists
    /\ retentionTiers = << >>
    /\ backends = << >>
    /\ \E k \in 0..MaxFiles : store = [b \in BackendIds |-> InitialFiles(k)]
    /\ result = EmptyResult
    /\ tierIdx = 1
    /\ closed = [b \in BackendIds |-> 0]
    /\ IdleUpload
    /\ IdleRotation
    /\ IdleSched
    /\ IdleRetry
    /\ IdleFactory
    /\ IdleAge
    /\ IdleOther

UploadNext ==
    \/ UploadSpawn
    \/ UploadSpawnDone
    \/ \E b \in BackendIds : GoWrite(b)
    \/ \E b \in BackendIds : GoWriteHang(b)
    \/ \E b \in BackendIds : GoSend(b)
    \/ \E b \in BackendIds : GoDone(b)
    \/ UploadReturn

Next ==
    \/ ExecSkip
    \/ ExecPgpassFail
    \/ ExecInitBackendsFail
    \/ ExecInitBackends
    \/ ExecMkdirFail
    \/ ExecMkdirOk
    \/ ExecDumpFailed
    \/ ExecDumpOk
    \/ UploadNext
    \/ ExecDecide
    \/ ExecVerdict
    \/ RotListFail
    \/ RotList
    \/ RotDelete
    \/ RotReturn
    \/ RotAllDone
    \/ ExecClose

Spec == Init /\ [][Next]_vars

\* a direct call Upload(ctx, backends, sourcePath, destPath) on 0..N backends
InitUpload ==
    /\ pc = "upload_spawn"
    /\ dueTiers = << >>
    /\ retentionTiers = << >>
    /\ \E n \in 0..MaxUploadBackends : backends = [i \in 1..n |-> i]
    /\ store = [b \in BackendIds |-> {}]
    /\ result = EmptyResult
    /\ tierIdx = 1
    /\ closed = [b \in BackendIds |-> 0]
    /\ uploadTier = "hourly"
    /\ uploadRet = "upload_returned"
    /\ spawnIdx = 1
    /\ wg = 0
    /\ gpc = [b \in BackendIds |-> "none"]
    /\ gerr = [b \in BackendIds |-> NoErr]
    /\ resultsChan = << >>
    /\ uploadResults = << >>
    /\ writeCalls = [b \in BackendIds |-> 0]
    /\ IdleRotation
    /\ IdleSched
    /\ IdleRetry
    /\ IdleFactory
    /\ IdleAge
    /\ IdleOther

SpecUpload == InitUpload /\ [][UploadNext]_vars

\* a direct call of Upload, or of Delete(ctx, backends, path) for a file
\* every backend holds, on 0..N backends
InitMulti ==
    /\ pc = "upload_spawn"
    /\ dueTiers = << >>
    /\ retentionTiers = << >>
    /\ \E n \in 0..MaxUploadBackends : backends = [i \in 1..n |-> i]
    /\ method \in { "Upload", "Delete" }
    /\ store = [b \in BackendIds |->
                   IF method = "Delete" THEN {NewFile("hourly")} ELSE {}]
    /\ result = EmptyResult
    /\ tierIdx = 1
    /\ closed = [b \in BackendIds |-> 0]
    /\ uploadTier = "hourly"
    /\ uploadRet = "multi_returned"
    /\ spawnIdx = 1
    /\ wg = 0
    /\ gpc = [b \in BackendIds |-> "none"]
    /\ gerr = [b \in BackendIds |-> NoErr]
    /\ resultsChan = << >>
    /\ uploadResults = << >>
    /\ writeCalls = [b \in BackendIds |-> 0]
    /\ IdleRotation
    /\ IdleSched
    /\ IdleRetry
    /\ IdleFactory
    /\ IdleAge
    /\ IdleFilename
    /\ IdleBackend
    /\ IdleMain
    /\ inBackupDir = {}

MultiNext ==
    \/ UploadNext
    \/ \E b \in BackendIds : GoDelete(b)
    \/ \E b \in BackendIds : GoDeleteHang(b)

\* the Go scheduler runs every goroutine that can take a step: the caller's
\* loop, wg.Wait and return, and in every spawned goroutine the backend call
\* (which returns or hangs), the send and wg.Done
MultiFairness ==
    /\ WF_vars(UploadSpawn)
    /\ WF_vars(UploadSpawnDone)
    /\ WF_vars(UploadReturn)
    /\ \A b \in BackendIds :
          /\ WF_vars(GoWrite(b) \/ GoWriteHang(b) \/ GoDelete(b) \/ GoDeleteHang(b))
          /\ WF_vars(GoSend(b))
          /\ WF_vars(GoDone(b))

SpecMulti == InitMulti /\ [][MultiNext]_vars /\ MultiFairness

\* ---------------------------------------------------------------- scheduler
\* time.Time{} (IsZero): "no backup found"; every real timestamp is later
ZeroTime == 0

Day == 24 * Hour

\* the instant GetDueTiers is asked about
SchedNow == 1000 * Day

\* tiers the scheduler is configured with, at most this many at once
MaxSchedTiers == 2

\* ages of the files of a tier in the backup directory: just inside and just
\* on the tier's interval, ten days, four hundred days
SchedAges(t) == { TierInterval(t) - 1, TierInterval(t), 10 * Day, 400 * Day }

\* tier tag of a file without one (untagged new format, or legacy format)
NoTier == ""

\* candidate files of the database in cfg.BackupDir; size 0 is a failed dump
SchedCandidates ==
    UNION { { [tier |-> t, ts |-> SchedNow - a, size |-> sz] :
                 a \in SchedAges(t), sz \in {0, 1} } : t \in Range(TierOrder) }
    \cup { [tier |-> NoTier, ts |-> SchedNow - a, size |-> 1] :
             a \in { Hour \div 2, 10 * Day, 400 * Day } }

\* a file name carries (tier, timestamp): no two files share both
DistinctNames(S) ==
    \A f, g \in S : (f.tier = g.tier /\ f.ts = g.ts) => f = g

RECURSIVE SetsUpTo(_, _)
SetsUpTo(C, k) ==
    IF k = 0 THEN { {} }
    ELSE LET P == SetsUpTo(C, k - 1)
         IN  P \cup { s \cup {c} : s \in P, c \in C }

\* the contents of the backup directory the scheduler may find
SchedDirs == { S \in SetsUpTo(SchedCandidates, MaxSchedFiles) : DistinctNames(S) }

\* retention configurations: up to MaxSchedTiers tiers, in TierOrder order
RECURSIVE TierSeq(_, _)
TierSeq(S, i) ==
    IF i > Len(TierOrder) THEN << >>
    ELSE IF TierOrder[i] \in S
            THEN << [Tier |-> TierOrder[i], Retention |-> 1] >> \o TierSeq(S, i + 1)
            ELSE TierSeq(S, i + 1)

SchedConfigs ==
    { TierSeq(S, 1) : S \in SetsUpTo(Range(TierOrder), MaxSchedTiers) }

MaxTs(S) == CHOOSE x \in S : \A y \in S : y <= x
MinTs(S) == CHOOSE x \in S : \A y \in S : x <= y

\* mutant: a 0-byte file counts as a backup of its tier
FindLastBackupTimeByTier_countEmpty(files, tierName) ==
    LET matches == { f \in files : f.tier = tierName }
    IN  IF matches = {} THEN ZeroTime ELSE MaxTs({ f.ts : f \in matches })

\* findLastBackupTimeByTier: newest non-empty file tagged with the tier
FindLastBackupTimeByTier(files, tierName) ==
    LET matches == { f \in files : f.tier = tierName /\ f.size > 0 }
    IN  IF matches = {} THEN ZeroTime ELSE MaxTs({ f.ts : f \in matches })

\* findOldestBackup: oldest file of the database, whatever its tier or size
FindOldestBackup(files) ==
    IF files = {} THEN ZeroTime ELSE MinTs({ f.ts : f \in files })

\* mutant: a backup exactly one interval old is not yet due
IsDue_strict(timeSinceLastBackup, interval) == timeSinceLastBackup > interval

\* isDue := timeSinceLastBackup >= interval
IsDue(timeSinceLastBackup, interval) == timeSinceLastBackup >= interval

\* "yearly tier satisfied by aged backup": some backup is at least a year old
YearlySatisfied(tierName, lastBackupTime, oldestBackup, t) ==
    /\ tierName = "yearly"
    /\ lastBackupTime # ZeroTime
    /\ oldestBackup # ZeroTime
    /\ t - oldestBackup >= TierInterval(tierName)

\* mutant: an aged backup makes the yearly tier due instead of satisfied
CheckTier_agedIsDue(tierName, files, t, listFails) ==
    LET interval == TierInterval(tierName)
        last     == FindLastBackupTimeByTier(files, tierName)
        oldest   == FindOldestBackup(files)
    IN  IF listFails
           THEN [due |-> TRUE, next |-> t]
        ELSE IF YearlySatisfied(tierName, last, oldest, t)
           THEN [due |-> TRUE, next |-> t]
        ELSE IF last = ZeroTime
           THEN [due |-> TRUE, next |-> t]
        ELSE IF IsDue(t - last, interval)
           THEN [due |-> TRUE, next |-> t]
        ELSE [due |-> FALSE, next |-> last + interval]

\* one iteration of the loop over retentionTiers in GetDueTiers:
\* whether the tier is due and when it is due next
CheckTier(tierName, files, t, listFails) ==
    LET interval == TierInterval(tierName)
        last     == FindLastBackupTimeByTier(files, tierName)
        oldest   == FindOldestBackup(files)
    IN  IF listFails
           THEN [due |-> TRUE, next |-> t]
        ELSE IF YearlySatisfied(tierName, last, oldest, t)
           THEN [due |-> FALSE, next |-> oldest + interval]
        ELSE IF last = ZeroTime
           THEN [due |-> TRUE, next |-> t]
        ELSE IF IsDue(t - last, interval)
           THEN [due |-> TRUE, next |-> t]
        ELSE [due |-> FALSE, next |-> last + interval]

\* mutant: the loop over the tiers stops at the first tier whose backups
\* cannot be inspected
RECURSIVE DueFrom_abortOnError(_, _, _, _, _)
DueFrom_abortOnError(cfg, i, files, t, listFails) ==
    IF i > Len(cfg) THEN << >>
    ELSE LET c == CheckTier(cfg[i].Tier, files, t, listFails)
         IN  (IF c.due THEN << cfg[i].Tier >> ELSE << >>)
             \o (IF listFails THEN << >>
                  ELSE DueFrom_abortOnError(cfg, i + 1, files, t, listFails))

\* the loop over retentionTiers: the due tiers, in configuration order
RECURSIVE DueFrom(_, _, _, _, _)
DueFrom(cfg, i, files, t, listFails) ==
    IF i > Len(cfg) THEN << >>
    ELSE LET c == CheckTier(cfg[i].Tier, files, t, listFails)
         IN  (IF c.due THEN << cfg[i].Tier >> ELSE << >>)
             \o DueFrom(cfg, i + 1, files, t, listFails)

\* mutant: without retention tiers nothing is due
GetDueTiersResult_noDefault(cfg, files, t, listFails) ==
    [Due  |-> DueFrom(cfg, 1, files, t, listFails),
     Next |-> [tn \in { cfg[i].Tier : i \in 1..Len(cfg) } |->
                  CheckTier(tn, files, t, listFails).next]]

\* GetDueTiers(cfg, db, now, logger): the TierSchedule it returns
GetDueTiersResult(cfg, files, t, listFails) ==
    IF Len(cfg) = 0
       THEN [Due |-> << "default" >>, Next |-> << >>]
       ELSE [Due  |-> DueFrom(cfg, 1, files, t, listFails),
             Next |-> [tn \in { cfg[i].Tier : i \in 1..Len(cfg) } |->
                          CheckTier(tn, files, t, listFails).next]]

\* GetDueTiers returns (schedule, nil) on every path
GetDueTiers ==
    /\ pc = "sched_start"
    /\ schedule' = GetDueTiersResult(retentionTiers, backupFiles, now, globErr)
    /\ schedErr' = NoErr
    /\ pc' = "sched_done"
    /\ UNCHANGED << dueTiers, retentionTiers, backends, store, result, tierIdx,
                    uploadVars, rotVars, closed, backupFiles, now, globErr,
                    backupDue, retryVars, factoryVars,
                    ageVars, otherVars >>

\* IsBackupDue: schedule, err := GetDueTiers(...); if err != nil { return
\* false, err }; return len(schedule.Due) > 0, nil
IsBackupDue ==
    /\ pc = "sched_start"
    /\ schedule' = GetDueTiersResult(retentionTiers, backupFiles, now, globErr)
    /\ schedErr' = NoErr
    /\ backupDue' = IF schedErr' # NoErr
                       THEN [due |-> FALSE, err |-> schedErr']
                       ELSE [due |-> Len(schedule'.Due) > 0, err |-> NoErr]
    /\ pc' = "isdue_done"
    /\ UNCHANGED << dueTiers, retentionTiers, backends, store, result, tierIdx,
                    uploadVars, rotVars, closed, backupFiles, now, globErr,
                    retryVars, factoryVars,
                    ageVars, otherVars >>

InitSched ==
    /\ pc = "sched_start"
    /\ dueTiers = << >>
    /\ retentionTiers \in SchedConfigs
    /\ backends = << >>
    /\ store = [b \in BackendIds |-> {}]
    /\ result = EmptyResult
    /\ tierIdx = 1
    /\ closed = [b \in BackendIds |-> 0]
    /\ IdleUpload
    /\ IdleRotation
    /\ backupFiles \in SchedDirs
    /\ now = SchedNow
    /\ globErr \in BOOLEAN
    /\ schedule = [Due |-> << >>, Next |-> << >>]
    /\ schedErr = NotReturned
    /\ backupDue = NotReturned
    /\ IdleRetry
    /\ IdleFactory
    /\ IdleAge
    /\ IdleOther

NextSched ==
    \/ GetDueTiers
    \/ IsBackupDue

SpecSched == InitSched /\ [][NextSched]_vars

\* ------------------------------------------------------------------ WithRetry
\* errors op may return: retryable, critical and ordinary ones (errors.go)
OpErrs == { "ErrConnFailed", "ErrTimeout", "ErrAuthFailed", "ErrNotFound" }

\* ctx.Err() of a canceled context
CtxCanceled == "context.Canceled"

\* BackoffFactor values, as fractions: 1.0, 2.0 (the default), 1.5
BackoffFactors ==
    { [num |-> 1, den |-> 1], [num |-> 2, den |-> 1], [num |-> 3, den |-> 2] }

\* the retry configurations a caller may pass
RetryConfigs ==
    [ MaxAttempts : 0..MaxRetryAttempts, InitialDelay : 0..MaxRetryDelay,
      MaxDelay : 1..MaxRetryDelay, BackoffFactor : BackoffFactors ]

\* time.Duration(float64(delay) * cfg.BackoffFactor): the product, truncated
\* to a whole number of time units
ScaleDelay(d, f) == (d * f.num) \div f.den

\* delay after a wait: scaled, then capped at cfg.MaxDelay
NextDelay(d, cfg) ==
    IF ScaleDelay(d, cfg.BackoffFactor) > cfg.MaxDelay
       THEN cfg.MaxDelay
       ELSE ScaleDelay(d, cfg.BackoffFactor)

notRetryVars == << execVars, backends, store, closed, uploadVars, rotVars,
                   schedVars, factoryVars, ageVars, otherVars >>

\* the loop body up to the select: err := op(); nil, critical and
\* non-retryable errors return at once, the last attempt breaks out of the
\* loop and returns lastErr, otherwise the wait begins
RetryAttempt ==
    /\ pc = "retry_loop"
    /\ attempt <= rcfg.MaxAttempts
    /\ \E err \in {NoErr} \cup OpErrs :
          /\ opErrs' = Append(opErrs, err)
          /\ lastErr' = IF err = NoErr THEN lastErr ELSE err
          /\ IF err = NoErr \/ IsCritical(err) \/ ~IsRetryable(err)
                THEN /\ retryResult' = err
                     /\ pc' = "retry_done"
                ELSE IF attempt = rcfg.MaxAttempts
                THEN /\ retryResult' = lastErr'
                     /\ pc' = "retry_done"
                ELSE /\ retryResult' = retryResult
                     /\ pc' = "retry_wait"
    /\ UNCHANGED << rcfg, attempt, delay, waits, ctx, notRetryVars >>

\* the loop condition attempt <= cfg.MaxAttempts is false: return lastErr
RetryLoopExit ==
    /\ pc = "retry_loop"
    /\ attempt > rcfg.MaxAttempts
    /\ retryResult' = lastErr
    /\ pc' = "retry_done"
    /\ UNCHANGED << rcfg, attempt, delay, lastErr, opErrs, waits, ctx,
                    notRetryVars >>

\* case <-time.After(delay): the wait elapsed; the next delay is computed and
\* the loop goes on.  A context canceled before the timer fires wakes the
\* select through its other case; a wait of zero length does not block, so a
\* context that is already canceled then races with the timer.
RetryWaitElapsed ==
    /\ pc = "retry_wait"
    /\ ~ctx.done \/ delay = 0
    /\ waits' = Append(waits, delay)
    /\ delay' = NextDelay(delay, rcfg)
    /\ attempt' = attempt + 1
    /\ pc' = "retry_loop"
    /\ UNCHANGED << rcfg, lastErr, opErrs, ctx, retryResult, notRetryVars >>

\* mutant: a canceled wait surfaces the operation's error
RetryCtxDone_lastErr ==
    /\ pc = "retry_wait"
    /\ ctx.done
    /\ retryResult' = lastErr
    /\ pc' = "retry_done"
    /\ UNCHANGED << rcfg, attempt, delay, lastErr, opErrs, waits, ctx,
                    notRetryVars >>

\* case <-ctx.Done(): return ctx.Err()
RetryCtxDone ==
    /\ pc = "retry_wait"
    /\ ctx.done
    /\ retryResult' = CtxCanceled
    /\ pc' = "retry_done"
    /\ UNCHANGED << rcfg, attempt, delay, lastErr, opErrs, waits, ctx,
                    notRetryVars >>

\* the caller cancels the context, during an attempt or during a wait
CtxCancel ==
    /\ pc \in { "retry_loop", "retry_wait" }
    /\ ~ctx.done
    /\ ctx' = [done |-> TRUE,
               duringWait |-> (pc = "retry_wait" /\ delay > 0),
               opCallsThen |-> Len(opErrs)]
    /\ UNCHANGED << pc, rcfg, attempt, delay, lastErr, opErrs, waits,
                    retryResult, notRetryVars >>

\* WithRetry(ctx, cfg, op) is called: lastErr is nil, delay := cfg.InitialDelay
InitRetry ==
    /\ pc = "retry_loop"
    /\ dueTiers = << >>
    /\ retentionTiers = << >>
    /\ backends = << >>
    /\ store = [b \in BackendIds |-> {}]
    /\ result = EmptyResult
    /\ tierIdx = 1
    /\ closed = [b \in BackendIds |-> 0]
    /\ IdleUpload
    /\ IdleRotation
    /\ IdleSched
    /\ IdleFactory
    /\ IdleAge
    /\ IdleOther
    /\ rcfg \in RetryConfigs
    /\ attempt = 1
    /\ delay = rcfg.InitialDelay
    /\ lastErr = NoErr
    /\ opErrs = << >>
    /\ waits = << >>
    /\ ctx = [done |-> FALSE, duringWait |-> FALSE, opCallsThen |-> 0]
    /\ retryResult = NotReturned

NextRetry ==
    \/ RetryAttempt
    \/ RetryLoopExit
    \/ RetryWaitElapsed
    \/ RetryCtxDone
    \/ CtxCancel

SpecRetry == InitRetry /\ [][NextRetry]_vars

\* ---------------------------------------------------------- Factory.CreateAll
\* backend types: one with a registered constructor, one without
BackendTypes == { "local", "unregistered" }

\* the []Config slices handed to CreateAll
FactoryConfigs ==
    UNION { [1..n -> [Enabled : BOOLEAN, Type : BackendTypes]] :
              n \in 0..MaxFactoryConfigs }

\* CreateAll's error: "failed to create backend <name>: ..."
CreateFailed == "failed to create backend"

notFactoryVars == << execVars, backends, store, uploadVars, rotVars,
                     schedVars, retryVars, ageVars, otherVars >>

\* if !cfg.Enabled { continue }
FactorySkipDisabled ==
    /\ pc = "factory_loop"
    /\ fIdx <= Len(fconfigs)
    /\ ~fconfigs[fIdx].Enabled
    /\ fIdx' = fIdx + 1
    /\ UNCHANGED << pc, fconfigs, fBackends, fCreated, fReturn, closed,
                    notFactoryVars >>

\* f.Create finds the constructor and the constructor returns a backend:
\* backends = append(backends, backend)
FactoryCreateOk ==
    /\ pc = "factory_loop"
    /\ fIdx <= Len(fconfigs)
    /\ fconfigs[fIdx].Enabled
    /\ fconfigs[fIdx].Type = "local"
    /\ fCreated' = Append(fCreated, fIdx)
    /\ fBackends' = Append(fBackends, fIdx)
    /\ fIdx' = fIdx + 1
    /\ UNCHANGED << pc, fconfigs, fReturn, closed, notFactoryVars >>

\* mutant: the error is returned without closing what was created
FactoryCreateFail_noCleanup ==
    /\ pc = "factory_loop"
    /\ fIdx <= Len(fconfigs)
    /\ fconfigs[fIdx].Enabled
    /\ fCreated' = IF fconfigs[fIdx].Type = "local"
                      THEN Append(fCreated, fIdx) ELSE fCreated
    /\ fReturn' = [backends |-> << >>, err |-> CreateFailed]
    /\ pc' = "factory_done"
    /\ UNCHANGED << fconfigs, fIdx, fBackends, closed, notFactoryVars >>

\* f.Create fails (no constructor registered for the type, or the constructor
\* returns an error): every backend created so far is closed, return nil, err
FactoryCreateFail ==
    /\ pc = "factory_loop"
    /\ fIdx <= Len(fconfigs)
    /\ fconfigs[fIdx].Enabled
    /\ fCreated' = IF fconfigs[fIdx].Type = "local"
                      THEN Append(fCreated, fIdx) ELSE fCreated
    /\ closed' = [b \in BackendIds |->
                     IF b \in Range(fBackends) THEN closed[b] + 1 ELSE closed[b]]
    /\ fReturn' = [backends |-> << >>, err |-> CreateFailed]
    /\ pc' = "factory_done"
    /\ UNCHANGED << fconfigs, fIdx, fBackends, notFactoryVars >>

\* the loop over configs is over: return backends, nil
FactoryReturn ==
    /\ pc = "factory_loop"
    /\ fIdx > Len(fconfigs)
    /\ fReturn' = [backends |-> fBackends, err |-> NoErr]
    /\ pc' = "factory_done"
    /\ UNCHANGED << fconfigs, fIdx, fBackends, fCreated, closed,
                    notFactoryVars >>

\* CreateAll(ctx, configs) is called: backends is empty
InitFactory ==
    /\ pc = "factory_loop"
    /\ dueTiers = << >>
    /\ retentionTiers = << >>
    /\ backends = << >>
    /\ store = [b \in BackendIds |-> {}]
    /\ result = EmptyResult
    /\ tierIdx = 1
    /\ closed = [b \in BackendIds |-> 0]
    /\ IdleUpload
    /\ IdleRotation
    /\ IdleSched
    /\ IdleRetry
    /\ IdleAge
    /\ IdleOther
    /\ fconfigs \in FactoryConfigs
    /\ fIdx = 1
    /\ fBackends = << >>
    /\ fCreated = << >>
    /\ fReturn = NotReturned

NextFactory ==
    \/ FactorySkipDisabled
    \/ FactoryCreateOk
    \/ FactoryCreateFail
    \/ FactoryReturn

SpecFactory == InitFactory /\ [][NextFactory]_vars

\* ------------------------------------------- RotateBackups (age-based rotation)
\* a CategorizeTier whose windows exclude their upper edge
CategorizeTier_exclusive(backupTime, t) ==
    LET age == t - backupTime
    IN  IF age < 24 * Hour THEN "hourly"
        ELSE IF age < 7 * Day THEN "daily"
        ELSE IF age < 30 * Day THEN "weekly"
        ELSE IF age < 90 * Day THEN "monthly"
        ELSE IF age < 365 * Day THEN "quarterly"
        ELSE "yearly"

\* CategorizeTier, tier.go: the tier of a backup by its age
CategorizeTier(backupTime, t) ==
    LET age == t - backupTime
    IN  IF age <= 24 * Hour THEN "hourly"
        ELSE IF age <= 7 * Day THEN "daily"
        ELSE IF age <= 30 * Day THEN "weekly"
        ELSE IF age <= 90 * Day THEN "monthly"
        ELSE IF age <= 365 * Day THEN "quarterly"
        ELSE "yearly"

\* sort.Slice(tieredBackups, Timestamp.Before): oldest first
RECURSIVE SortOldestFirst(_)
SortOldestFirst(S) ==
    IF S = {} THEN << >>
    ELSE LET oldest == CHOOSE f \in S : \A g \in S : f.ts <= g.ts
         IN  << oldest >> \o SortOldestFirst(S \ {oldest})

\* the retention configured for a tier (retentionMap), -1 when the tier has
\* no policy
RetentionMap(cfg, tier) ==
    LET idx == { i \in 1..Len(cfg) : cfg[i].Tier = tier }
    IN  IF idx = {} THEN -1
        ELSE cfg[CHOOSE i \in idx : \A k \in idx : k <= i].Retention

\* a tier of ApplyRetention that keeps the oldest backups
TierDeletions_keepOldest(tiered, retention) ==
    IF tiered = {} \/ retention = -1 \/ retention = 0 THEN << >>
    ELSE IF Cardinality(tiered) > retention
            THEN SubSeq(SortOldestFirst(tiered), retention + 1, Cardinality(tiered))
            ELSE << >>

\* one tier of ApplyRetention: no policy or retention 0 keeps everything,
\* otherwise the oldest len - retention backups of the tier are marked
TierDeletions(tiered, retention) ==
    IF tiered = {} \/ retention = -1 \/ retention = 0 THEN << >>
    ELSE IF Cardinality(tiered) > retention
            THEN SubSeq(SortOldestFirst(tiered), 1, Cardinality(tiered) - retention)
            ELSE << >>

\* ApplyRetention(backups, retentionTiers, logger): the files to delete,
\* tier by tier in the order hourly .. yearly
RECURSIVE ApplyRetentionFrom(_, _, _, _)
ApplyRetentionFrom(i, backups, cfg, t) ==
    IF i > Len(TierOrder) THEN << >>
    ELSE LET tiered == { f \in backups : CategorizeTier(f.ts, t) = TierOrder[i] }
         IN  TierDeletions(tiered, RetentionMap(cfg, TierOrder[i]))
             \o ApplyRetentionFrom(i + 1, backups, cfg, t)

ApplyRetention(backups, cfg, t) == ApplyRetentionFrom(1, backups, cfg, t)

\* ages of the backups in the directory (seconds): inside the hourly window,
\* on and one second past the edge of every tier's window, a very old one
AgeSamples == { Hour, 2 * Hour, Day, Day + 1, 7 * Day, 7 * Day + 1, 30 * Day,
                30 * Day + 1, 90 * Day, 90 * Day + 1, 365 * Day,
                365 * Day + 1, 400 * Day }

\* the database RotateBackups is called for, and other databases backed up
\* into the same directory; a name is a sequence of tokens
RotatedDb == << "mydb" >>
OtherDbs == { << "mydb", "_", "test" >>, << "other" >> }

\* filepath.Glob(GetBackupPattern(backupDir, dbName)): dbName + "*.backup"
\* matches every backup file whose name begins with dbName
GlobMatches(db, dbName) ==
    Len(db) >= Len(dbName) /\ SubSeq(db, 1, Len(dbName)) = dbName

\* the contents of the directory RotateBackups works on
AgeDirs ==
    SetsUpTo({ [db |-> RotatedDb, tier |-> "hourly", ts |-> SchedNow - a,
                size |-> 1] : a \in AgeSamples },
             MaxAgeFiles)

\* a directory shared by several databases
SharedDirs ==
    SetsUpTo({ [db |-> d, tier |-> "hourly", ts |-> SchedNow - a, size |-> 1] :
                 d \in { RotatedDb } \cup OtherDbs,
                 a \in { Hour, 2 * Hour, 400 * Day } },
             MaxAgeFiles)

\* errors os.Remove may return
RemoveErrs == { "EACCES" }

\* the local directory, where a backend is recorded
LocalDir == 0

notAgeVars == << dueTiers, result, tierIdx, backends, store, closed,
                 uploadVars, rotB, rotT, listLog, rotReturned, now, globErr,
                 schedule, schedErr, backupDue, retryVars, factoryVars,
                 otherVars >>

\* RotateBackups up to the call of DeleteFiles: the Glob, the parsing of the
\* file names, ApplyRetention and the early returns
RotateBackups ==
    /\ pc = "age_start"
    /\ LET files == { f \in backupFiles : GlobMatches(f.db, RotatedDb) }
           filesToDelete == ApplyRetention(files, retentionTiers, now)
       IN  IF globErr
              THEN /\ rotateErr' = "failed to list backup files"
                   /\ rotQueue' = << >>
                   /\ pc' = "age_done"
           ELSE IF files = {} \/ filesToDelete = << >>
              THEN /\ rotateErr' = NoErr
                   /\ rotQueue' = << >>
                   /\ pc' = "age_done"
           ELSE /\ rotateErr' = rotateErr
                /\ rotQueue' = filesToDelete
                /\ pc' = "age_delete"
    /\ errorCount' = 0
    /\ UNCHANGED << retentionTiers, backupFiles, deleteLog, notAgeVars >>

\* DeleteFiles, one iteration: os.Remove(file) succeeds
DeleteFilesRemoved ==
    /\ pc = "age_delete"
    /\ rotQueue # << >>
    /\ deleteLog' = Append(deleteLog, [backend |-> LocalDir,
                                       file |-> Head(rotQueue), err |-> NoErr])
    /\ backupFiles' = backupFiles \ { Head(rotQueue) }
    /\ rotQueue' = Tail(rotQueue)
    /\ UNCHANGED << pc, retentionTiers, errorCount, rotateErr, notAgeVars >>

\* DeleteFiles, one iteration: os.Remove(file) fails; logged, errorCount++
DeleteFilesFailed ==
    /\ pc = "age_delete"
    /\ rotQueue # << >>
    /\ \E err \in RemoveErrs :
          deleteLog' = Append(deleteLog, [backend |-> LocalDir,
                                          file |-> Head(rotQueue), err |-> err])
    /\ errorCount' = errorCount + 1
    /\ rotQueue' = Tail(rotQueue)
    /\ UNCHANGED << pc, retentionTiers, backupFiles, rotateErr, notAgeVars >>

\* DeleteFiles returns an error when errorCount > 0, nil otherwise, and
\* RotateBackups wraps and returns it
DeleteFilesReturn ==
    /\ pc = "age_delete"
    /\ rotQueue = << >>
    /\ rotateErr' = IF errorCount > 0 THEN "failed to delete files" ELSE NoErr
    /\ pc' = "age_done"
    /\ UNCHANGED << retentionTiers, backupFiles, rotQueue, deleteLog,
                    errorCount, notAgeVars >>

\* RotateBackups(backupDir, dbName, retentionTiers, logger) is called
InitAge ==
    /\ pc = "age_start"
    /\ dueTiers = << >>
    /\ retentionTiers \in RetentionConfigs
    /\ backends = << >>
    /\ store = [b \in BackendIds |-> {}]
    /\ result = EmptyResult
    /\ tierIdx = 1
    /\ closed = [b \in BackendIds |-> 0]
    /\ IdleUpload
    /\ IdleRotation
    /\ backupFiles \in AgeDirs
    /\ now = SchedNow
    /\ globErr \in BOOLEAN
    /\ schedule = [Due |-> << >>, Next |-> << >>]
    /\ schedErr = NotReturned
    /\ backupDue = NotReturned
    /\ IdleRetry
    /\ IdleFactory
    /\ IdleAge
    /\ IdleOther

NextAge ==
    \/ RotateBackups
    \/ DeleteFilesRemoved
    \/ DeleteFilesFailed
    \/ DeleteFilesReturn

SpecAge == InitAge /\ [][NextAge]_vars

\* RotateBackups is called for RotatedDb on a directory that also holds the
\* backups of other databases
InitAgeShared ==
    /\ pc = "age_start"
    /\ dueTiers = << >>
    /\ retentionTiers \in RetentionConfigs
    /\ backends = << >>
    /\ store = [b \in BackendIds |-> {}]
    /\ result = EmptyResult
    /\ tierIdx = 1
    /\ closed = [b \in BackendIds |-> 0]
    /\ IdleUpload
    /\ IdleRotation
    /\ backupFiles \in SharedDirs
    /\ now = SchedNow
    /\ globErr \in BOOLEAN
    /\ schedule = [Due |-> << >>, Next |-> << >>]
    /\ schedErr = NotReturned
    /\ backupDue = NotReturned
    /\ IdleRetry
    /\ IdleFactory
    /\ IdleAge
    /\ IdleOther

SpecAgeShared == InitAgeShared /\ [][NextAge]_vars

\* ------------------------------------------------------ backup file names
\* pkg/rotation/filename.go.  A string is a sequence of tokens: a token is
\* one character ("a", "-", "_", "/") or a run of characters no separator
\* can fall inside (a tier name, a date, a time of day, ".backup").

\* longest database name, in characters
MaxNameLen == 3
\* distinct wall-clock readings a backup timestamp is drawn from
MaxStamps == 2
\* separator-delimited segments of a file name found on disk
MaxRawSegments == 4

\* the strings time.Format(DateFormatNew) prints for wall-clock reading w
DateFormatNew == << "2024-01-15T10-30-00", "2024-01-15T11-30-00",
                    "2024-01-15T12-30-00", "2024-01-15T13-30-00" >>

\* the same readings under DateFormatOld: a date, "_" and a time of day
DateFormatOld == [w \in 1..4 |->
                    << "2024-01-15", "_", << "10-30-00", "11-30-00",
                                             "12-30-00", "13-30-00" >>[w] >>]

SeparatorNew == << "-", "-" >>
SeparatorOld == << "_" >>

\* time.Time{}: year 1, UTC
ZeroTimestamp == [wall |-> 0, nsec |-> 0, offset |-> 0]

\* time.Time values: the wall-clock reading (hours), the nanoseconds within
\* the second and the zone offset (hours east of UTC) of its Location
Timestamps == [wall : 1..MaxStamps, nsec : {0, 1}, offset : {0, 1}]

\* t.Format(layout): the wall clock in t's own zone, whole seconds, no zone
FormatTime(t, layout) ==
    IF layout = "DateFormatNew" THEN << DateFormatNew[t.wall] >>
                                ELSE DateFormatOld[t.wall]

\* a time.Parse that reports no error for a string it cannot parse
ParseTime_zeroOnError(layout, s) ==
    LET W == { w \in 1..MaxStamps :
                  s = FormatTime([wall |-> w, nsec |-> 0, offset |-> 0],
                                 layout) }
    IN  [t |-> IF W # {}
                  THEN [wall |-> CHOOSE w \in W : TRUE, nsec |-> 0,
                        offset |-> 0]
                  ELSE ZeroTimestamp,
         err |-> NoErr]

\* time.Parse(layout, s): the layout names no zone, so the result is UTC
ParseTime(layout, s) ==
    LET W == { w \in 1..MaxStamps :
                  s = FormatTime([wall |-> w, nsec |-> 0, offset |-> 0],
                                 layout) }
    IN  IF W # {}
           THEN [t |-> [wall |-> CHOOSE w \in W : TRUE, nsec |-> 0,
                        offset |-> 0],
                 err |-> NoErr]
           ELSE [t |-> ZeroTimestamp, err |-> "parsing time: cannot parse"]

\* strings.Split(s, sep): cut at every occurrence of sep, leftmost first,
\* occurrences never overlapping
RECURSIVE Split(_, _)
Split(s, sep) ==
    LET I == { i \in 1..(Len(s) - Len(sep) + 1) :
                  SubSeq(s, i, i + Len(sep) - 1) = sep }
    IN  IF I = {}
           THEN << s >>
           ELSE LET i == CHOOSE j \in I : \A k \in I : j <= k
                IN  << SubSeq(s, 1, i - 1) >>
                    \o Split(SubSeq(s, i + Len(sep), Len(s)), sep)

\* strings.Join(parts, sep)
RECURSIVE Join(_, _)
Join(parts, sep) ==
    IF parts = << >> THEN << >>
    ELSE IF Len(parts) = 1 THEN parts[1]
    ELSE parts[1] \o sep \o Join(Tail(parts), sep)

\* strings.TrimSuffix(s, suffix)
TrimSuffix(s, suffix) ==
    IF /\ Len(suffix) <= Len(s)
       /\ SubSeq(s, Len(s) - Len(suffix) + 1, Len(s)) = suffix
       THEN SubSeq(s, 1, Len(s) - Len(suffix))
       ELSE s

\* filepath.Ext(path): from the last dot of the last element to the end
Ext(path) ==
    LET I == { i \in 1..Len(path) : path[i] = ".backup" }
    IN  IF I = {} THEN << >>
        ELSE SubSeq(path, CHOOSE i \in I : \A k \in I : k <= i, Len(path))

\* filepath.Base(path): what follows the last separator
Base(path) ==
    LET I == { i \in 1..Len(path) : path[i] = "/" }
    IN  IF I = {} THEN path
        ELSE SubSeq(path, (CHOOSE i \in I : \A k \in I : k <= i) + 1,
                    Len(path))

\* filepath.Join(dir, name)
FilepathJoin(dir, name) == dir \o << "/" >> \o name

\* BackupFilenameComponents{}
NoComponents == [DatabaseName |-> << >>, Tier |-> << >>,
                 Timestamp |-> ZeroTimestamp, HasTier |-> FALSE]

\* parseNewFormatWithTier
parseNewFormatWithTier(filename) ==
    LET nameWithoutExt == TrimSuffix(filename, Ext(filename))
        parts == Split(nameWithoutExt, SeparatorNew)
        ts == ParseTime("DateFormatNew", parts[Len(parts)])
    IN  IF Len(parts) = 3
           THEN IF ts.err # NoErr
                   THEN [c |-> NoComponents,
                         err |-> "failed to parse timestamp from tier format"]
                   ELSE [c |-> [DatabaseName |-> parts[1], Tier |-> parts[2],
                                Timestamp |-> ts.t, HasTier |-> TRUE],
                         err |-> NoErr]
        ELSE IF Len(parts) = 2
           THEN IF ts.err # NoErr
                   THEN [c |-> NoComponents,
                         err |-> "failed to parse timestamp from new format"]
                   ELSE [c |-> [DatabaseName |-> parts[1], Tier |-> << >>,
                                Timestamp |-> ts.t, HasTier |-> FALSE],
                         err |-> NoErr]
        ELSE [c |-> NoComponents,
              err |-> "invalid new format: expected 2 or 3 parts"]

\* parseOldFormat
parseOldFormat(filename) ==
    LET parts == Split(filename, SeparatorOld)
    IN  IF Len(parts) < 3
           THEN [t |-> ZeroTimestamp,
                 err |-> "invalid old format: expected at least 3 parts"]
           ELSE LET datePart == parts[Len(parts) - 1]
                    timePart == TrimSuffix(parts[Len(parts)], Ext(filename))
                    ts == ParseTime("DateFormatOld",
                                    datePart \o SeparatorOld \o timePart)
                IN  IF ts.err # NoErr
                       THEN [t |-> ZeroTimestamp,
                             err |-> "failed to parse old format date"]
                       ELSE [t |-> ts.t, err |-> NoErr]

\* ParseBackupFilename
ParseBackupFilename(filename) ==
    LET base == Base(filename)
        old == parseOldFormat(base)
        parts == Split(TrimSuffix(base, Ext(base)), SeparatorOld)
    IN  IF Len(Split(base, SeparatorNew)) > 1
           THEN parseNewFormatWithTier(base)
        ELSE IF old.err # NoErr
           THEN [c |-> NoComponents, err |-> old.err]
        ELSE [c |-> [DatabaseName |->
                         Join(SubSeq(parts, 1, Len(parts) - 2), SeparatorOld),
                     Tier |-> << >>, Timestamp |-> old.t, HasTier |-> FALSE],
              err |-> NoErr]

\* ExtractDateFromFilename
ExtractDateFromFilename(filename) ==
    LET parsed == ParseBackupFilename(filename)
    IN  IF parsed.err # NoErr
           THEN [t |-> ZeroTimestamp, err |-> parsed.err]
           ELSE [t |-> parsed.c.Timestamp, err |-> NoErr]

\* GenerateBackupFilename
GenerateBackupFilename(backupDir, dbName, timestamp) ==
    FilepathJoin(backupDir,
                 dbName \o SeparatorNew
                        \o FormatTime(timestamp, "DateFormatNew")
                        \o << ".backup" >>)

\* GenerateBackupFilenameWithTier
GenerateBackupFilenameWithTier(backupDir, dbName, tier, timestamp) ==
    FilepathJoin(backupDir,
                 dbName \o SeparatorNew \o tier \o SeparatorNew
                        \o FormatTime(timestamp, "DateFormatNew")
                        \o << ".backup" >>)

\* cfg.BackupDir
BackupDir == << "/", "b" >>

\* the database names the schema accepts (^[a-zA-Z0-9_-]+$), letters and
\* digits standing as "a"
DbNames == UNION { [1..n -> {"a", "-", "_"}] : n \in 1..MaxNameLen }

\* the arguments of a generator call; kind "found" is a file name that was
\* not generated in this run
GenArgs ==
    [kind : {"tagged"}, dbName : DbNames,
     tier : { << TierOrder[i] >> : i \in 1..Len(TierOrder) },
     timestamp : Timestamps]
    \cup [kind : {"untagged"}, dbName : DbNames, tier : { << >> },
          timestamp : Timestamps]

FoundArgs == [kind |-> "found", dbName |-> << >>, tier |-> << >>,
              timestamp |-> ZeroTimestamp]

\* the segments of a file name found in a backup directory: a name, a tier,
\* a well-formed and a malformed timestamp, a date, a time of day, nothing
RawSegments == { << "a" >>, << "hourly" >>, << DateFormatNew[1] >>,
                 << "2024-13-45T99-99-99" >>, << "2024-01-15" >>,
                 << "10-30-00" >>, << >> }

notFilenameVars == << execVars, backends, store, closed, uploadVars, rotVars,
                      schedVars, retryVars, factoryVars, ageVars,
                      backendVars, mainVars, agreeVars, multiVars >>

\* the executor names a tier's dump: GenerateBackupFilenameWithTier
GenerateTagged ==
    /\ pc = "fn_start"
    /\ fnArgs.kind = "tagged"
    /\ fnFile' = GenerateBackupFilenameWithTier(BackupDir, fnArgs.dbName,
                                                fnArgs.tier, fnArgs.timestamp)
    /\ pc' = "fn_named"
    /\ UNCHANGED << fnArgs, fnParsed, fnDate, notFilenameVars >>

\* main names a dump: GenerateBackupFilename
GenerateUntagged ==
    /\ pc = "fn_start"
    /\ fnArgs.kind = "untagged"
    /\ fnFile' = GenerateBackupFilename(BackupDir, fnArgs.dbName,
                                        fnArgs.timestamp)
    /\ pc' = "fn_named"
    /\ UNCHANGED << fnArgs, fnParsed, fnDate, notFilenameVars >>

\* a caller parses the name: ParseBackupFilename(file)
CallParseBackupFilename ==
    /\ pc = "fn_named"
    /\ fnParsed' = ParseBackupFilename(fnFile)
    /\ pc' = "fn_parsed"
    /\ UNCHANGED << fnArgs, fnFile, fnDate, notFilenameVars >>

\* a caller asks for the date only: ExtractDateFromFilename(file)
CallExtractDateFromFilename ==
    /\ pc = "fn_parsed"
    /\ fnDate' = ExtractDateFromFilename(fnFile)
    /\ pc' = "fn_done"
    /\ UNCHANGED << fnArgs, fnFile, fnParsed, notFilenameVars >>

\* a name is about to be generated, or a file was found in the directory
InitFilename ==
    /\ inBackupDir = {}
    /\ method = "Upload"
    /\ \/ /\ pc = "fn_start"
          /\ fnArgs \in GenArgs
          /\ fnFile = << >>
       \/ /\ pc = "fn_named"
          /\ fnArgs = FoundArgs
          \* up to MaxRawSegments segments joined by one of the separators,
          \* with or without the extension
          /\ \E n \in 1..MaxRawSegments :
                \E segs \in [1..n -> RawSegments] :
                   \E sep \in { SeparatorNew, SeparatorOld } :
                      \E e \in { << >>, << ".backup" >> } :
                         /\ Join(segs, sep) # << >>
                         /\ fnFile = FilepathJoin(BackupDir,
                                                  Join(segs, sep) \o e)
    /\ fnParsed = NotReturned
    /\ fnDate = NotReturned
    /\ dueTiers = << >>
    /\ retentionTiers = << >>
    /\ backends = << >>
    /\ store = [b \in BackendIds |-> {}]
    /\ result = EmptyResult
    /\ tierIdx = 1
    /\ closed = [b \in BackendIds |-> 0]
    /\ IdleUpload
    /\ IdleRotation
    /\ IdleSched
    /\ IdleRetry
    /\ IdleFactory
    /\ IdleAge
    /\ IdleBackend
    /\ IdleMain

NextFilename ==
    \/ GenerateTagged
    \/ GenerateUntagged
    \/ CallParseBackupFilename
    \/ CallExtractDateFromFilename

SpecFilename == InitFilename /\ [][NextFilename]_vars

\* ------------------------------------------------------- storage backends
\* One backend of each kind (pkg/storage/local, ssh, s3, backblaze) and the
\* Write, List and Exists calls made on it.  Paths and patterns are
\* sequences of characters.

\* longest object name and longest List pattern, in characters
MaxObjNameLen == 2
MaxPatternLen == 5
\* objects a backend holds
MaxObjects == 2

BackendKinds == { "local", "ssh", "s3", "backblaze" }

ObjNames == UNION { [1..n -> {"a", "b"}] : n \in 1..MaxObjNameLen }

Patterns == UNION { [1..n -> {"a", "*"}] : n \in 1..MaxPatternLen }

\* size in bytes of the dump being uploaded
SourceSize == 1024

\* storage.ErrNotFound
ErrNotFound == << "file not found" >>

\* storage.WrapError: fmt.Errorf("%s (%s): %w", operation, backend, err)
WrapError(operation, err) == << operation >> \o err

\* errors.Is(err, target) for a sentinel target
ErrorsIs(err, target) ==
    \E i \in 1..Len(err) : SubSeq(err, i, Len(err)) = target

\* strings.HasPrefix, strings.HasSuffix
HasPrefix(s, prefix) ==
    Len(prefix) <= Len(s) /\ SubSeq(s, 1, Len(prefix)) = prefix

HasSuffix(s, suffix) ==
    /\ Len(suffix) <= Len(s)
    /\ SubSeq(s, Len(s) - Len(suffix) + 1, Len(s)) = suffix

\* filepath.Match restricted to literal characters and "*": a star stands
\* for any run of characters, the empty one included
RECURSIVE GlobMatch(_, _)
GlobMatch(name, pattern) ==
    IF pattern = << >> THEN name = << >>
    ELSE IF Head(pattern) = "*"
       THEN \E k \in 0..Len(name) :
               GlobMatch(SubSeq(name, k + 1, Len(name)), Tail(pattern))
    ELSE /\ name # << >>
         /\ Head(name) = Head(pattern)
         /\ GlobMatch(Tail(name), Tail(pattern))

\* matchesGlob of the ssh backend
matchesGlob(path, pattern) ==
    LET n == Len(pattern)
        I == { i \in 1..n : pattern[i] = "*" }
    IN  IF pattern = << "*" >> THEN TRUE
        ELSE IF n > 0 /\ pattern[1] = "*"
           THEN HasSuffix(path, Tail(pattern))
        ELSE IF n > 0 /\ pattern[n] = "*"
           THEN HasPrefix(path, SubSeq(pattern, 1, n - 1))
        ELSE IF I # {}
           THEN LET i == CHOOSE j \in I : \A k \in I : j <= k
                    prefix == SubSeq(pattern, 1, i - 1)
                    suffix == SubSeq(pattern, i + 1, n)
                IN  /\ Len(path) >= Len(prefix) + Len(suffix)
                    /\ HasPrefix(path, prefix)
                    /\ HasSuffix(path, suffix)
        ELSE path = pattern

\* matchesGlob of the s3 and of the backblaze backend
matchesGlobS3(path, pattern) ==
    IF HasPrefix(pattern, << "*" >>)
       THEN HasSuffix(path, Tail(pattern))
    ELSE IF HasSuffix(pattern, << "*" >>)
       THEN HasPrefix(path, TrimSuffix(pattern, << "*" >>))
    ELSE IF \E i \in 1..Len(pattern) : pattern[i] = "*"
       THEN LET parts == Split(pattern, << "*" >>)
            IN  HasPrefix(path, parts[1]) /\ HasSuffix(path, parts[2])
    ELSE path = pattern

\* extractPrefix: the pattern up to its first wildcard
extractPrefix(pattern) == Split(pattern, << "*" >>)[1]

\* the entries List looks at and does not filter out by name: Glob for the
\* local backend, ReadDir and matchesGlob for ssh, a prefix listing and
\* matchesGlob for s3 and backblaze
Matched(kind, objs, pattern) ==
    IF kind = "local"
       THEN { o \in objs : GlobMatch(o.Path, pattern) }
    ELSE IF kind = "ssh"
       THEN { o \in objs : matchesGlob(o.Path, pattern) }
    ELSE { o \in objs : /\ HasPrefix(o.Path, extractPrefix(pattern))
                        /\ matchesGlobS3(o.Path, pattern) }

\* the slices List may return: the matched entries of non-zero size after
\* sort.Slice with less = ModTime.After (not stable: ties in any order)
ListResults(kind, objs, pattern) ==
    LET F == { o \in Matched(kind, objs, pattern) : o.Size # 0 }
    IN  { s \in [1..Cardinality(F) -> F] :
            /\ \A i, j \in DOMAIN s : i # j => s[i] # s[j]
            /\ \A i, j \in DOMAIN s :
                  i < j => ~(s[j].ModTime > s[i].ModTime) }

\* Stat: the local and the ssh backend turn os.IsNotExist into
\* storage.ErrNotFound; s3 and backblaze wrap whatever HeadObject / Attrs
\* returned
Stat(kind, objs, path) ==
    IF \E o \in objs : o.Path = path
       THEN [info |-> CHOOSE o \in objs : o.Path = path, err |-> Nil]
    ELSE IF kind \in { "local", "ssh" }
       THEN [info |-> Nil, err |-> ErrNotFound]
    ELSE [info |-> Nil, err |-> WrapError("stat", << "NotFound" >>)]

\* the states a Write of destPath may leave and the error it returns.  The
\* errors the clients return are none of the storage sentinels, so WithRetry
\* runs the operation once.
WriteOutcomes(kind, objs, destPath) ==
    LET written(k) ==
            objs \cup { [Path |-> destPath, Size |-> k,
                         ModTime |-> MaxObjects + 1] }
        open == [objects |-> objs, err |-> << "open: no such file" >>]
        done == [objects |-> written(SourceSize), err |-> Nil]
        failed(op, cause) == [objects |-> objs,
                              err |-> WrapError(op, << cause >>)]
    IN  IF kind = "local"
           \* MkdirAll, Open and Create fail before anything is written;
           \* a failed io.Copy is followed by os.Remove(destFullPath)
           THEN { done, failed("write", "mkdir"), failed("write", "open"),
                  failed("write", "create"), failed("write", "copy") }
        ELSE IF kind = "ssh"
           \* a failed io.Copy returns with the remote file as far as it
           \* was written
           THEN { done, open, failed("mkdir", "sftp"),
                  failed("create", "sftp") }
                \cup { [objects |-> written(k),
                        err |-> WrapError("upload", << "copy" >>)] :
                       k \in { 0, SourceSize \div 2 } }
        ELSE IF kind = "s3"
           \* uploader.Upload stores the object whole or not at all
           THEN { done, open, failed("upload", "PutObject") }
        \* backblaze: after a failed io.Copy writer.Close() is called, which
        \* completes the upload of what was written when the reading side
        \* failed and gives it up when the writing side failed
        ELSE { done, open, failed("upload", "copy"), failed("upload", "close") }
             \cup { [objects |-> written(SourceSize \div 2),
                     err |-> WrapError("upload", << "copy: read" >>)] }

notBackendVars == << execVars, backends, store, closed, uploadVars, rotVars,
                     schedVars, retryVars, factoryVars, ageVars,
                     filenameVars, mainVars, agreeVars, multiVars >>

\* Backend.Write(ctx, sourcePath, destPath) on a destPath not yet there
CallWrite ==
    /\ pc = "backend_ready"
    /\ Cardinality(objects) < MaxObjects
    /\ \E destPath \in ObjNames \ { o.Path : o \in objects } :
          \E out \in WriteOutcomes(bkind, objects, destPath) :
             /\ objects' = out.objects
             /\ bcall' = [op |-> "Write", arg |-> destPath]
             /\ bret' = [value |-> Nil, err |-> out.err]
    /\ UNCHANGED << pc, bkind, notBackendVars >>

\* Backend.List(ctx, pattern), the call under study; listing the remote
\* side may fail
CallList ==
    /\ pc = "backend_ready"
    /\ \E pattern \in Patterns :
          /\ bcall' = [op |-> "List", arg |-> pattern]
          /\ \/ \E files \in ListResults(bkind, objects, pattern) :
                   bret' = [value |-> files, err |-> Nil]
             \/ /\ bkind # "local"
                /\ bret' = [value |-> Nil,
                            err |-> WrapError("list", << "io" >>)]
    /\ pc' = "backend_called"
    /\ UNCHANGED << bkind, objects, notBackendVars >>

\* Backend.Exists(ctx, path), the call under study
CallExists ==
    /\ pc = "backend_ready"
    /\ \E path \in ObjNames :
          LET st == Stat(bkind, objects, path)
          IN  /\ bcall' = [op |-> "Exists", arg |-> path]
              /\ bret' = IF st.err = Nil
                            THEN [value |-> TRUE, err |-> Nil]
                         ELSE IF ErrorsIs(st.err, ErrNotFound)
                            THEN [value |-> FALSE, err |-> Nil]
                         ELSE [value |-> FALSE, err |-> st.err]
    /\ pc' = "backend_called"
    /\ UNCHANGED << bkind, objects, notBackendVars >>

\* a backend of some kind holding some objects
InitBackend ==
    /\ inBackupDir = {}
    /\ method = "Upload"
    /\ pc = "backend_ready"
    /\ bkind \in BackendKinds
    \* objects of distinct names, empty or not, with their modification times
    /\ \E N \in { M \in SUBSET ObjNames : Cardinality(M) <= MaxObjects } :
          \E f \in [N -> [Size : {0, SourceSize}, ModTime : 1..MaxObjects]] :
             objects = { [Path |-> n, Size |-> f[n].Size,
                          ModTime |-> f[n].ModTime] : n \in N }
    /\ bcall = [op |-> "none", arg |-> << >>]
    /\ bret = [value |-> Nil, err |-> Nil]
    /\ dueTiers = << >>
    /\ retentionTiers = << >>
    /\ backends = << >>
    /\ store = [b \in BackendIds |-> {}]
    /\ result = EmptyResult
    /\ tierIdx = 1
    /\ closed = [b \in BackendIds |-> 0]
    /\ IdleUpload
    /\ IdleRotation
    /\ IdleSched
    /\ IdleRetry
    /\ IdleFactory
    /\ IdleAge
    /\ IdleFilename
    /\ IdleMain

NextBackend ==
    \/ CallWrite
    \/ CallList
    \/ CallExists

SpecBackend == InitBackend /\ [][NextBackend]_vars

\* -------------------------------------------------------------------- main
\* main.go: the loop over cfg.Databases, after config.ParseConfig

\* databases in the configuration file
MaxDatabases == 3

\* the databases of a configuration file: "enabled" is true, false or left
\* out, retention tiers are configured (here or globally) or not; Enabled is
\* the field of DatabaseConfig, not yet decoded
JsonDatabases ==
    UNION { [1..n -> [enabled : {"true", "false", "omitted"},
                      hasTiers : BOOLEAN, Enabled : {FALSE}]] :
            n \in 0..MaxDatabases }

\* DatabaseConfig.IsEnabled
IsEnabled(db) == db.Enabled \/ db.Enabled = FALSE

notMainVars == << execVars, backends, store, closed, uploadVars, rotVars,
                  schedVars, retryVars, factoryVars, ageVars, filenameVars,
                  backendVars, agreeVars, multiVars >>

\* config.ParseConfig: json.Decode leaves Enabled false unless the file says
\* true, then every database whose Enabled is false gets Enabled = true
ParseConfig ==
    /\ pc = "main_parse"
    /\ databases' =
          [i \in DOMAIN databases |->
              LET decoded == (databases[i].enabled = "true")
              IN  [databases[i] EXCEPT
                      !.Enabled = IF ~decoded THEN TRUE ELSE decoded]]
    /\ pc' = "main_loop"
    /\ UNCHANGED << dbIdx, dumpLog, counts, notMainVars >>

\* one iteration of the loop over cfg.Databases: a database that is not
\* enabled is skipped; otherwise pg_dump runs, a failed dump counts as a
\* failure, a successful one is followed by RotateBackups when retention
\* tiers are configured and counts as a success whatever the rotation returns
MainProcessDatabase ==
    /\ pc = "main_loop"
    /\ dbIdx <= Len(databases)
    /\ LET db == databases[dbIdx]
       IN  IF ~IsEnabled(db)
              THEN /\ dumpLog' = Append(dumpLog, "skipped")
                   /\ counts' = counts
              ELSE \E dumped \in BOOLEAN :
                      IF ~dumped
                         THEN /\ dumpLog' = Append(dumpLog, "dump failed")
                              /\ counts' = [counts EXCEPT !.failure = @ + 1]
                         ELSE /\ dumpLog' =
                                    Append(dumpLog,
                                           IF db.hasTiers
                                              THEN "dumped and rotated"
                                              ELSE "dumped")
                              /\ counts' = [counts EXCEPT !.success = @ + 1]
    /\ dbIdx' = dbIdx + 1
    /\ UNCHANGED << pc, databases, notMainVars >>

\* the loop is over: the totals are logged and main exits
MainExit ==
    /\ pc = "main_loop"
    /\ dbIdx > Len(databases)
    /\ pc' = "main_done"
    /\ UNCHANGED << databases, dbIdx, dumpLog, counts, notMainVars >>

\* main has validated the configuration file and is about to parse it
InitMain ==
    /\ inBackupDir = {}
    /\ method = "Upload"
    /\ pc = "main_parse"
    /\ databases \in JsonDatabases
    /\ dbIdx = 1
    /\ dumpLog = << >>
    /\ counts = [success |-> 0, failure |-> 0]
    /\ dueTiers = << >>
    /\ retentionTiers = << >>
    /\ backends = << >>
    /\ store = [b \in BackendIds |-> {}]
    /\ result = EmptyResult
    /\ tierIdx = 1
    /\ closed = [b \in BackendIds |-> 0]
    /\ IdleUpload
    /\ IdleRotation
    /\ IdleSched
    /\ IdleRetry
    /\ IdleFactory
    /\ IdleAge
    /\ IdleFilename
    /\ IdleBackend

NextMain ==
    \/ ParseConfig
    \/ MainProcessDatabase
    \/ MainExit

SpecMain == InitMain /\ [][NextMain]_vars

\* ------------------------------------------------- BackupDatabase, GetDueTiers
\* the timestamp argument of the run, carried by the names of its files
RunTime == NewFile("hourly").ts

\* what filepath.Glob finds in cfg.BackupDir: the files of the destination
\* that is this directory, if there is one
BackupDirFiles == UNION { store[b] : b \in inBackupDir }

\* the instants the scheduler is asked about after the run: the first and
\* the last second of the hourly and of the daily interval
AgreeNows == { RunTime + d : d \in { 0, Hour - 1, Hour, Day - 1 } }

\* GetDueTiers(cfg, db, now, logger) once BackupDatabase has returned, with
\* the retention tiers of the same database
SchedAfterRun ==
    /\ pc = "done"
    /\ backupFiles' = BackupDirFiles
    /\ now' \in AgreeNows
    /\ schedule' = GetDueTiersResult(retentionTiers, backupFiles', now', globErr)
    /\ schedErr' = NoErr
    /\ pc' = "agree_done"
    /\ UNCHANGED << execVars, backends, store, uploadVars, rotVars, closed,
                    globErr, backupDue, retryVars, factoryVars, ageVars,
                    otherVars >>

\* a run as in Init; at most one of its destinations is a local backend on
\* cfg.BackupDir, the others are remote or local elsewhere
InitAgree ==
    /\ pc = "start"
    /\ dueTiers \in DueLists
    /\ retentionTiers = << >>
    /\ backends = << >>
    /\ \E k \in 0..MaxFiles : store = [b \in BackendIds |-> InitialFiles(k)]
    /\ result = EmptyResult
    /\ tierIdx = 1
    /\ closed = [b \in BackendIds |-> 0]
    /\ IdleUpload
    /\ IdleRotation
    /\ IdleSched
    /\ IdleRetry
    /\ IdleFactory
    /\ IdleAge
    /\ IdleFilename
    /\ IdleBackend
    /\ IdleMain
    /\ inBackupDir \in { D \in SUBSET BackendIds : Cardinality(D) <= 1 }
    /\ method = "Upload"

NextAgree ==
    \/ Next
    \/ SchedAfterRun

SpecAgree == InitAgree /\ [][NextAgree]_vars

\* ==================================================================== claims
ConfiguredTiers == { retentionTiers[i].Tier : i \in 1..Len(retentionTiers) }

RetentionOf(tier) ==
    (CHOOSE c \in Range(retentionTiers) : c.Tier = tier).Retention

\* the run went through setup and the loop over dueTiers
VerdictReached ==
    /\ pc \in { "rotate", "rotate_delete", "closing", "done" }
    /\ backends # << >>
    /\ tierIdx > Len(dueTiers)

\* ------------------------------------------------------------------------ C1
\* C1: a backend List or Delete is called (the rotation engine runs) only in
\* a run where at least one due tier ended in TiersCompleted; when every due
\* tier failed, no List and no Delete is ever called.
C1_RotationOnlyAfterSuccess ==
    (listLog # << >> \/ deleteLog # << >> \/ pc \in { "rotate", "rotate_delete" })
        => Len(result.TiersCompleted) > 0

\* a finished run whose due tiers all failed, one of them because every
\* upload failed, and in which no List or Delete was called
C1_Witness ==
    /\ pc = "done"
    /\ Len(dueTiers) > 0
    /\ Len(result.TiersFailed) = Len(dueTiers)
    /\ DOMAIN result.BackendResults # {}
    /\ listLog = << >>
    /\ deleteLog = << >>

\* ------------------------------------------------------------------------ C2
\* the files of a listing that have at least n newer files in the listing
OldestBeyond(files, n) ==
    { f \in Range(files) :
        Cardinality({ g \in Range(files) : g.ts > f.ts }) >= n }

DeleteIdx(b, tier) ==
    { j \in 1..Len(deleteLog) :
        deleteLog[j].backend = b /\ deleteLog[j].file.tier = tier }

\* the deletions of this listing are still being issued
RotInProgress(e) ==
    /\ pc = "rotate_delete"
    /\ backends[rotB] = e.backend
    /\ retentionTiers[rotT].Tier = e.tier

\* C2: for a tier with retention N > 0 whose listing returned M files, Delete
\* is issued exactly once for each of the M-N oldest files when M > N, never
\* for one of the N newest, and not at all when M <= N.
C2_DeletesExactlyOldest ==
    \A i \in 1..Len(listLog) :
        LET e       == listLog[i]
            idx     == DeleteIdx(e.backend, e.tier)
            issued  == { deleteLog[j].file : j \in idx }
            pending == IF RotInProgress(e) THEN Range(rotQueue) ELSE {}
        IN  (e.err = NoErr /\ RetentionOf(e.tier) > 0) =>
               /\ issued \cup pending = OldestBeyond(e.files, RetentionOf(e.tier))
               /\ issued \cap pending = {}
               /\ Cardinality(idx) = Cardinality(issued)

\* a finished run in which a listing of M > N > 0 files led to deletions and
\* another listing of M <= N files led to none
C2_Witness ==
    /\ pc = "done"
    /\ \E i \in 1..Len(listLog) :
          /\ listLog[i].err = NoErr
          /\ RetentionOf(listLog[i].tier) > 0
          /\ Len(listLog[i].files) > RetentionOf(listLog[i].tier)
          /\ Cardinality(DeleteIdx(listLog[i].backend, listLog[i].tier)) >= 1
    /\ \E i \in 1..Len(listLog) :
          /\ listLog[i].err = NoErr
          /\ listLog[i].files # << >>
          /\ Len(listLog[i].files) <= RetentionOf(listLog[i].tier)

\* ------------------------------------------------------------------------ C3
\* C3: no Delete is issued for a file of a tier that is absent from the
\* retention configuration or configured with retention 0 (keep unlimited).
C3_UnlimitedNeverPruned ==
    \A j \in 1..Len(deleteLog) :
        LET tier == deleteLog[j].file.tier
        IN  tier \in ConfiguredTiers /\ RetentionOf(tier) > 0

\* ------------------------------------------------------------------------ C4
ResultsFor(results, b) ==
    { i \in 1..Len(results) : results[i].BackendName = b }

\* C4: Upload calls Write exactly once on each given backend and on no other,
\* and when it returns it returns exactly one Result per backend, every Write
\* having returned; with no backends it returns no results.
C4_OneWriteOneResultPerBackend ==
    /\ \A b \in BackendIds : writeCalls[b] <= 1
    /\ \A b \in BackendIds \ Range(backends) : writeCalls[b] = 0
    /\ pc = "upload_returned" =>
          /\ Len(uploadResults) = Len(backends)
          /\ \A b \in Range(backends) :
                /\ writeCalls[b] = 1
                /\ gpc[b] = "done"
                /\ Cardinality(ResultsFor(uploadResults, b)) = 1

\* Upload has returned the results of at least two backends
C4_Witness ==
    /\ pc = "upload_returned"
    /\ Len(backends) >= 2
    /\ Len(uploadResults) = Len(backends)

\* ------------------------------------------------------------------------ C5
OwnOutcome(r) ==
    /\ r.Success = (gerr[r.BackendName] = NoErr)
    /\ r.Error = gerr[r.BackendName]

\* C5: every Result carries the outcome of its own backend's Write (Success
\* iff that Write returned nil, Error that Write's error), and a started
\* Write can always proceed whatever the other backends' Writes do.
C5_ResultIsOwnWrite ==
    /\ \A i \in 1..Len(resultsChan) : OwnOutcome(resultsChan[i])
    /\ \A i \in 1..Len(uploadResults) : OwnOutcome(uploadResults[i])
    /\ \A b \in BackendIds : gpc[b] = "running" => ENABLED GoWrite(b)

\* three backends, one Write failed with a retryable error: three Results,
\* two successful and one failed
C5_Witness ==
    /\ pc = "upload_returned"
    /\ Len(uploadResults) = 3
    /\ Cardinality({ i \in 1..3 : uploadResults[i].Success }) = 2
    /\ \E i \in 1..3 : /\ ~uploadResults[i].Success
                       /\ IsRetryable(uploadResults[i].Error)

\* ------------------------------------------------------------------------ C6
\* C6: a tier whose dump was uploaded is in TiersCompleted iff at least one
\* of its upload Results has Success, and in TiersFailed iff all of them
\* failed.
C6_TierFailsOnlyIfAllBackendsFail ==
    \A tier \in DOMAIN result.BackendResults :
        LET rs == result.BackendResults[tier]
            ok == { i \in 1..Len(rs) : rs[i].Success }
        IN  /\ (tier \in Range(result.TiersCompleted)) <=> (ok # {})
            /\ (tier \in Range(result.TiersFailed)) <=> (ok = {})

\* a finished run with a tier that one backend took and another refused,
\* recorded as completed
C6_Witness ==
    /\ pc = "done"
    /\ \E tier \in DOMAIN result.BackendResults :
          LET rs == result.BackendResults[tier]
          IN  /\ \E i \in 1..Len(rs) : rs[i].Success
              /\ \E i \in 1..Len(rs) : ~rs[i].Success
              /\ tier \in Range(result.TiersCompleted)

\* ------------------------------------------------------------------------ C7
\* C7 as claimed: whenever at least one due tier is in TiersCompleted, the
\* run is not reported failed.
C7_NotFailedIfSomeTierCompleted ==
    (pc = "done" /\ Len(result.TiersCompleted) > 0)
        => (result.Success /\ result.Error = NoErr)

\* C7 amended: a run that went through the loop over its due tiers is
\* reported failed (Success false, Error set) iff at least one due tier is in
\* TiersFailed, whether or not other tiers are in TiersCompleted.
C7_FailedIffSomeTierFailed ==
    VerdictReached =>
        /\ result.Success <=> (Len(result.TiersFailed) = 0)
        /\ (result.Error # NoErr) <=> (Len(result.TiersFailed) > 0)

\* a finished run with a completed tier and a failed tier, reported failed
C7_Witness ==
    /\ pc = "done"
    /\ Len(result.TiersCompleted) > 0
    /\ Len(result.TiersFailed) > 0
    /\ ~result.Success
    /\ result.Error # NoErr

\* ------------------------------------------------------------------------ C8
\* non-empty backups in the directory that carry the tier's tag
PriorBackups(tier) == { f \in backupFiles : f.tier = tier /\ f.size > 0 }

\* C8: when the backup directory can be inspected, a configured tier other
\* than yearly is due iff it has no prior backup or its most recent prior
\* backup is at least interval(T) old, whatever the other tiers are.
C8_DueIffNoneOrOldEnough ==
    (pc = "sched_done" /\ ~globErr) =>
        \A tier \in ConfiguredTiers \ { "yearly" } :
            (tier \in Range(schedule.Due)) <=>
                \/ PriorBackups(tier) = {}
                \/ \A f \in PriorBackups(tier) : now - f.ts >= TierInterval(tier)

\* two tiers were checked: one whose newest backup is exactly one interval
\* old is due, the other, with a younger backup, is not
C8_Witness ==
    /\ pc = "sched_done"
    /\ ~globErr
    /\ \E t1, t2 \in ConfiguredTiers \ { "yearly" } :
          /\ t1 # t2
          /\ PriorBackups(t1) # {}
          /\ \A f \in PriorBackups(t1) : now - f.ts = TierInterval(t1)
          /\ t1 \in Range(schedule.Due)
          /\ PriorBackups(t2) # {}
          /\ t2 \notin Range(schedule.Due)

\* ------------------------------------------------------------------------ C9
\* C9: when the most recent yearly-tagged backup is at least 365 days old,
\* the yearly tier is reported due.
C9_YearlyDueWhenNewestIsAYearOld ==
    ( /\ pc = "sched_done"
      /\ ~globErr
      /\ "yearly" \in ConfiguredTiers
      /\ PriorBackups("yearly") # {}
      /\ \A f \in PriorBackups("yearly") : now - f.ts >= TierInterval("yearly") )
        => "yearly" \in Range(schedule.Due)

\* ----------------------------------------------------------------------- C10
\* C10: with a yearly tier configured, a most recent yearly-tagged backup
\* younger than 365 days and an oldest backup of any tier at least 365 days
\* old, the yearly tier is reported not due.
C10_YearlyNotDueWhenAgedBackupExists ==
    ( /\ pc = "sched_done"
      /\ ~globErr
      /\ "yearly" \in ConfiguredTiers
      /\ \E f \in PriorBackups("yearly") : now - f.ts < TierInterval("yearly")
      /\ \E f \in backupFiles : now - f.ts >= TierInterval("yearly") )
        => "yearly" \notin Range(schedule.Due)

\* the newest yearly backup is ten days old, a backup of another tier is four
\* hundred days old, and yearly is not due
C10_Witness ==
    /\ pc = "sched_done"
    /\ ~globErr
    /\ "yearly" \in ConfiguredTiers
    /\ PriorBackups("yearly") # {}
    /\ \A f \in PriorBackups("yearly") : now - f.ts = 10 * Day
    /\ \E f \in backupFiles : f.tier # "yearly" /\ now - f.ts = 400 * Day
    /\ "yearly" \notin Range(schedule.Due)

\* ----------------------------------------------------------------------- C11
\* C11: with zero retention tiers configured GetDueTiers returns exactly one
\* due tier, "default", and IsBackupDue returns (true, nil), whatever files
\* the backup directory holds.
C11_NoTiersAlwaysDefaultDue ==
    (pc \in { "sched_done", "isdue_done" } /\ Len(retentionTiers) = 0) =>
        /\ schedule.Due = << "default" >>
        /\ schedErr = NoErr
        /\ pc = "isdue_done" => backupDue = [due |-> TRUE, err |-> NoErr]

\* IsBackupDue answered true for a database without tiers whose directory
\* holds a backup written a second less than an hour ago
C11_Witness ==
    /\ pc = "isdue_done"
    /\ Len(retentionTiers) = 0
    /\ \E f \in backupFiles : f.size > 0 /\ now - f.ts < TierInterval("hourly")
    /\ schedule.Due = << "default" >>
    /\ backupDue.due

\* ----------------------------------------------------------------------- C12
\* C12: when inspecting the existing backups fails, GetDueTiers reports the
\* tier due with next-due = now, goes on to the remaining tiers (every
\* configured tier is evaluated, in order) and returns no error.
C12_InspectErrorMeansDue ==
    (pc \in { "sched_done", "isdue_done" } /\ globErr /\ Len(retentionTiers) > 0) =>
        /\ schedule.Due = [i \in 1..Len(retentionTiers) |-> retentionTiers[i].Tier]
        /\ DOMAIN schedule.Next = ConfiguredTiers
        /\ \A tier \in ConfiguredTiers : schedule.Next[tier] = now
        /\ schedErr = NoErr

\* the directory could not be inspected; two tiers are configured, one of
\* which has a backup younger than its interval, and both are due
C12_Witness ==
    /\ pc = "sched_done"
    /\ globErr
    /\ Len(retentionTiers) = 2
    /\ \E tier \in ConfiguredTiers :
          \E f \in PriorBackups(tier) : now - f.ts < TierInterval(tier)
    /\ Len(schedule.Due) = 2
    /\ schedErr = NoErr

\* ----------------------------------------------------------------------- C13
\* the Retryable kind: a connection failure or a timeout
ConnectionOrTimeout(err) == err \in { "ErrConnFailed", "ErrTimeout" }

\* C13: op is invoked again only after it returned a retryable error, at most
\* MaxAttempts times in all; when every attempt failed WithRetry returns the
\* last error; a critical or ordinary error is returned at once, and so is
\* nil after a success.
C13_RetriesOnlyRetryable ==
    /\ Len(opErrs) <= rcfg.MaxAttempts
    /\ \A i \in 1..(Len(opErrs) - 1) : ConnectionOrTimeout(opErrs[i])
    /\ (pc \in { "retry_loop", "retry_wait" } /\ opErrs # << >>) =>
          ConnectionOrTimeout(opErrs[Len(opErrs)])
    /\ (pc = "retry_done" /\ retryResult # CtxCanceled /\ opErrs # << >>) =>
          /\ retryResult = opErrs[Len(opErrs)]
          /\ ConnectionOrTimeout(retryResult) => Len(opErrs) = rcfg.MaxAttempts

\* three attempts all failed with retryable errors and the last one was
\* returned; the first two differ from it
C13_Witness ==
    /\ pc = "retry_done"
    /\ rcfg.MaxAttempts = 3
    /\ opErrs = << "ErrConnFailed", "ErrConnFailed", "ErrTimeout" >>
    /\ retryResult = "ErrTimeout"

\* ----------------------------------------------------------------------- C14
RECURSIVE Pow(_, _)
Pow(b, n) == IF n = 0 THEN 1 ELSE b * Pow(b, n - 1)

\* min(InitialDelay * BackoffFactor^n, MaxDelay), in whole time units
ClosedFormDelay(cfg, n) ==
    LET scaled == (cfg.InitialDelay * Pow(cfg.BackoffFactor.num, n))
                      \div Pow(cfg.BackoffFactor.den, n)
    IN  IF scaled > cfg.MaxDelay THEN cfg.MaxDelay ELSE scaled

\* C14: for every retry configuration the wait after the n-th failed
\* retryable attempt (n from 0) lasts min(InitialDelay * BackoffFactor^n,
\* MaxDelay), and so never exceeds MaxDelay.
C14_WaitIsCappedBackoff ==
    /\ \A i \in 1..Len(waits) :
          /\ waits[i] = ClosedFormDelay(rcfg, i - 1)
          /\ waits[i] <= rcfg.MaxDelay
    /\ pc = "retry_wait" =>
          /\ delay = ClosedFormDelay(rcfg, Len(waits))
          /\ delay <= rcfg.MaxDelay

\* ----------------------------------------------------------------------- C15
\* C15: once the context is canceled during a wait, op is not invoked again,
\* the loop is not resumed, and WithRetry returns the context's cancellation
\* error, not the operation's.
C15_CancelDuringWaitAborts ==
    ctx.duringWait =>
        /\ Len(opErrs) = ctx.opCallsThen
        /\ pc \in { "retry_wait", "retry_done" }
        /\ pc = "retry_done" => retryResult = CtxCanceled

\* the context was canceled in the wait after the first of three allowed
\* attempts, and WithRetry returned the cancellation
C15_Witness ==
    /\ pc = "retry_done"
    /\ ctx.duringWait
    /\ rcfg.MaxAttempts = 3
    /\ opErrs = << "ErrConnFailed" >>
    /\ lastErr = "ErrConnFailed"
    /\ retryResult = CtxCanceled

\* ----------------------------------------------------------------------- C16
\* C16: when the construction of an enabled config fails, CreateAll returns
\* the error and no backend, having closed every backend it had created; no
\* backend is closed before that, and no disabled config is ever constructed
\* or returned.
C16_FailedCreateAllClosesCreated ==
    /\ \A i \in Range(fCreated) \cup Range(fBackends) : fconfigs[i].Enabled
    /\ pc = "factory_loop" => \A b \in BackendIds : closed[b] = 0
    /\ (pc = "factory_done" /\ fReturn.err # NoErr) =>
          /\ fReturn.backends = << >>
          /\ \A b \in Range(fBackends) : closed[b] = 1
          /\ \A b \in BackendIds \ Range(fBackends) : closed[b] = 0

\* the fourth config failed after a disabled config was skipped and two
\* backends were created: both are closed and none is returned
C16_Witness ==
    /\ pc = "factory_done"
    /\ fReturn.err # NoErr
    /\ Len(fconfigs) = 4
    /\ fIdx = 4
    /\ \E i \in 1..3 : ~fconfigs[i].Enabled
    /\ Len(fBackends) = 2
    /\ \A b \in Range(fBackends) : closed[b] = 1

\* ----------------------------------------------------------------------- C17
\* calls of Write, List and Delete made on backend b so far
CallsOn(b) ==
    writeCalls[b]
  + Cardinality({ i \in 1..Len(listLog) : listLog[i].backend = b })
  + Cardinality({ i \in 1..Len(deleteLog) : deleteLog[i].backend = b })

\* C17: every backend created for a BackupDatabase run is closed exactly
\* once when the run ends, on every return path after construction, and
\* once a backend is closed no Write, List or Delete is issued to it and its
\* contents no longer change.
C17_BackendsClosedOnceAtEnd ==
    /\ [](\A b \in BackendIds : closed[b] <= 1)
    /\ [](\A b \in BackendIds \ Range(backends) : closed[b] = 0)
    /\ []((pc = "done" /\ backends # << >>) =>
             \A b \in Range(backends) : closed[b] = 1)
    /\ [][\A b \in BackendIds :
             closed[b] > 0 => (CallsOn(b)' = CallsOn(b) /\ store'[b] = store[b])]_vars

\* a run with two backends in which one tier failed, another completed and
\* rotation deleted a file has ended with both backends closed once
C17_Witness ==
    /\ pc = "done"
    /\ Len(backends) = 2
    /\ \A b \in Range(backends) : closed[b] = 1
    /\ result.TiersFailed # << >>
    /\ deleteLog # << >>

\* ----------------------------------------------------------------------- C18
\* the Delete calls made on backend b for files of the tier
AttemptsOn(b, tier) ==
    { j \in 1..Len(deleteLog) :
        deleteLog[j].backend = b /\ deleteLog[j].file.tier = tier }

\* C18: a Delete that fails on a backend does not abort its rotation: the
\* function returns an error only if a List failed, and when it returns nil
\* every configured tier was listed and every file beyond the retention
\* count of a listing was attempted exactly once.
C18_DeleteFailureDoesNotAbort ==
    \A j \in 1..Len(deleteLog) :
        LET b == deleteLog[j].backend
        IN  deleteLog[j].err # NoErr =>
              /\ rotReturned[b] \notin { "not_called", "nil" } =>
                    \E i \in 1..Len(listLog) :
                        listLog[i].backend = b /\ listLog[i].err # NoErr
              /\ rotReturned[b] = "nil" =>
                    /\ { listLog[i].tier :
                           i \in { k \in 1..Len(listLog) : listLog[k].backend = b } }
                          = ConfiguredTiers
                    /\ \A i \in 1..Len(listLog) :
                          listLog[i].backend = b =>
                             LET idx == AttemptsOn(b, listLog[i].tier)
                             IN  /\ { deleteLog[k].file : k \in idx }
                                    = OldestBeyond(listLog[i].files,
                                                   RetentionOf(listLog[i].tier))
                                 /\ Cardinality(idx)
                                    = Cardinality({ deleteLog[k].file : k \in idx })

\* on one backend a Delete failed, a later file of the same tier and a file
\* of a later tier were still attempted, and the function returned nil
C18_Witness ==
    \E j \in 1..Len(deleteLog) :
        LET b == deleteLog[j].backend
        IN  /\ deleteLog[j].err # NoErr
            /\ rotReturned[b] = "nil"
            /\ \E k \in (j + 1)..Len(deleteLog) :
                  /\ deleteLog[k].backend = b
                  /\ deleteLog[k].file.tier = deleteLog[j].file.tier
            /\ \E k \in (j + 1)..Len(deleteLog) :
                  /\ deleteLog[k].backend = b
                  /\ deleteLog[k].file.tier # deleteLog[j].file.tier

\* ----------------------------------------------------------------------- C19
\* the directory as RotateBackups found it
DirAtStart ==
    backupFiles \cup { deleteLog[j].file :
                         j \in { k \in 1..Len(deleteLog) : deleteLog[k].err = NoErr } }

\* C19: in RotateBackups a file that cannot be deleted does not stop the
\* attempts on the remaining files, each marked file being attempted once,
\* and RotateBackups still returns no error.
C19_AgeRotationIgnoresDeleteFailures ==
    (pc = "age_done" /\ \E j \in 1..Len(deleteLog) : deleteLog[j].err # NoErr) =>
        /\ [j \in 1..Len(deleteLog) |-> deleteLog[j].file]
              = ApplyRetention(DirAtStart, retentionTiers, now)
        /\ rotateErr = NoErr

\* ----------------------------------------------------------------------- C20
\* position of a tier in the retention configuration
TierPos(tier) == CHOOSE i \in 1..Len(retentionTiers) : retentionTiers[i].Tier = tier

\* C20: when List fails for a tier, ApplyRetentionWithBackend returns an
\* error naming the tier; on that backend no Delete is issued for the tier,
\* and nothing is listed or deleted for a later tier: the failed List is the
\* backend's last List call and its Delete calls are for earlier tiers.
C20_ListFailureStopsRotation ==
    \A i \in 1..Len(listLog) :
        LET b == listLog[i].backend
            t == listLog[i].tier
        IN  listLog[i].err # NoErr =>
              /\ rotReturned[b] = "failed to list files for tier " \o t
              /\ AttemptsOn(b, t) = {}
              /\ \A k \in 1..Len(listLog) :
                    (listLog[k].backend = b /\ k # i) =>
                        (k < i /\ TierPos(listLog[k].tier) < TierPos(t))
              /\ \A k \in 1..Len(deleteLog) :
                    deleteLog[k].backend = b =>
                        TierPos(deleteLog[k].file.tier) < TierPos(t)

\* the run ended after List failed for the first of two tiers on a backend
\* that held files beyond the retention count of both tiers: nothing was
\* deleted there, while another backend was rotated
C20_Witness ==
    /\ pc = "done"
    /\ Len(retentionTiers) = 2
    /\ \E i \in 1..Len(listLog) :
          LET b == listLog[i].backend
          IN  /\ listLog[i].err # NoErr
              /\ listLog[i].tier = retentionTiers[1].Tier
              /\ rotReturned[b] = "failed to list files for tier " \o listLog[i].tier
              /\ \A c \in Range(retentionTiers) :
                    Len(BackendList(store[b], c.Tier)) > c.Retention
              /\ \A k \in 1..Len(deleteLog) : deleteLog[k].backend # b
              /\ \E k \in 1..Len(deleteLog) : deleteLog[k].backend # b

\* time.Time.Equal: the same instant, to the nanosecond
SameInstant(t, u) == t.wall - t.offset = u.wall - u.offset /\ t.nsec = u.nsec

\* C21: parsing a generated file name gives back the database name, the
\* tier, the timestamp and HasTier it was generated from, for every database
\* name the schema accepts, every tier and every timestamp, tagged or not
C21_FilenameRoundTrip ==
    (pc \in {"fn_parsed", "fn_done"} /\ fnArgs.kind \in {"tagged", "untagged"})
        => /\ fnParsed.err = NoErr
           /\ fnParsed.c.DatabaseName = fnArgs.dbName
           /\ fnParsed.c.Tier = fnArgs.tier
           /\ SameInstant(fnParsed.c.Timestamp, fnArgs.timestamp)
           /\ fnParsed.c.HasTier = (fnArgs.kind = "tagged")

\* no token of the name is a well-formed timestamp of either layout
NoWellFormedStamp(f) ==
    /\ \A i \in 1..Len(f) : \A w \in 1..MaxStamps : f[i] # DateFormatNew[w]
    /\ \A i \in 1..(Len(f) - 2) : \A w \in 1..MaxStamps :
          SubSeq(f, i, i + 2) # DateFormatOld[w]

\* the name has no "--" and fewer than two "_": neither format's segments
TooFewSegments(f) ==
    /\ \A i \in 1..(Len(f) - 1) : ~(f[i] = "-" /\ f[i + 1] = "-")
    /\ Cardinality({ i \in 1..Len(f) : f[i] = "_" }) < 2

\* C22: for a file name with a malformed timestamp or too few segments both
\* ParseBackupFilename and ExtractDateFromFilename return an error, and
\* neither ever returns the zero timestamp together with a nil error
C22_MalformedNamesAreErrors ==
    /\ pc \in {"fn_parsed", "fn_done"}
          => /\ (NoWellFormedStamp(fnFile) \/ TooFewSegments(fnFile))
                   => fnParsed.err # NoErr
             /\ fnParsed.err = NoErr
                   => fnParsed.c.Timestamp # ZeroTimestamp
    /\ pc = "fn_done"
          => /\ (NoWellFormedStamp(fnFile) \/ TooFewSegments(fnFile))
                   => fnDate.err # NoErr
             /\ fnDate.err = NoErr => fnDate.t # ZeroTimestamp

\* a name of three "--" segments whose last one is a malformed timestamp was
\* parsed by both functions, and both returned an error
C22_Witness ==
    /\ pc = "fn_done"
    /\ fnArgs.kind = "found"
    /\ Len(Split(Base(fnFile), SeparatorNew)) = 3
    /\ \E i \in 1..Len(fnFile) : fnFile[i] = "2024-13-45T99-99-99"
    /\ NoWellFormedStamp(fnFile)
    /\ fnParsed.err # NoErr
    /\ fnDate.err # NoErr

\* the object a Write was asked to create is there with a non-zero size
DestPresent == \E o \in objects : o.Path = bcall.arg /\ o.Size > 0

\* C23: after a Write that returned an error, whatever the backend kind and
\* wherever it failed, there is no non-zero-byte object at destPath for a
\* later List or Exists to report
C23_FailedWriteLeavesNothing ==
    (pc = "backend_ready" /\ bcall.op = "Write"
        /\ bret.err # Nil)
        => ~DestPresent

\* C24: on every backend kind, Exists on a path that does not exist returns
\* (false, nil)
C24_ExistsOfMissingIsFalseNil ==
    (pc = "backend_called" /\ bcall.op = "Exists"
        /\ ~(\E o \in objects : o.Path = bcall.arg))
        => bret = [value |-> FALSE, err |-> Nil]

\* C25: every entry List returns is held by the backend, has a size above
\* zero and a name the pattern matches ("*" standing for any run of
\* characters), and the entries come newest first
C25_ListFiltersAndSorts ==
    (pc = "backend_called" /\ bcall.op = "List"
        /\ bret.err = Nil)
        => /\ \A i \in DOMAIN bret.value :
                 /\ bret.value[i] \in objects
                 /\ bret.value[i].Size > 0
                 /\ GlobMatch(bret.value[i].Path, bcall.arg)
           /\ \A i, j \in DOMAIN bret.value :
                 i < j => bret.value[i].ModTime >= bret.value[j].ModTime

\* number of wildcards of a pattern
Stars(pattern) == Cardinality({ i \in DOMAIN pattern : pattern[i] = "*" })

\* C26: a pattern that is none of the three supported shapes, such as one
\* with more than one "*", matches a name only when the name equals the
\* pattern; a pattern with one "*" matches the names that start with what
\* precedes the star and, after that, end with what follows it
C26_UnsupportedPatternsMatchExactly ==
    (pc = "backend_called" /\ bcall.op = "List"
        /\ bret.err = Nil /\ bkind # "local")
        => /\ Stars(bcall.arg) >= 2
                 => \A i \in DOMAIN bret.value :
                       bret.value[i].Path = bcall.arg
           /\ Stars(bcall.arg) = 1
                 => \A i \in DOMAIN bret.value :
                       GlobMatch(bret.value[i].Path, bcall.arg)

\* ----------------------------------------------------------------------- C27
\* the largest age, in days, each tier takes, in the order of TierOrder; the
\* yearly tier has none
TierUpperDays == << 1, 7, 30, 90, 365 >>

\* the tier whose window holds an age: above the bound of every earlier tier
\* and at most its own
AgeTier(age) ==
    LET fits == { i \in 1..Len(TierUpperDays) : age <= TierUpperDays[i] * Day }
    IN  IF fits = {} THEN "yearly"
        ELSE TierOrder[CHOOSE i \in fits : \A k \in fits : i <= k]

\* RotateBackups has categorized the directory it found
Categorized == pc \in { "age_delete", "age_done" } /\ ~globErr

\* C27: CategorizeTier gives every backup the one tier whose window holds
\* its age now - timestamp, the windows including their upper bound: up to
\* 24h hourly, 7d daily, 30d weekly, 90d monthly, 365d quarterly, yearly
\* beyond
C27_CategorizeTierInclusiveBounds ==
    Categorized =>
        \A f \in DirAtStart : CategorizeTier(f.ts, now) = AgeTier(now - f.ts)

\* backups exactly on the edge of two windows and one second past the edge
\* of two others have been categorized
C27_Witness ==
    /\ Categorized
    /\ \E f, g, h \in DirAtStart :
          /\ now - f.ts = 7 * Day /\ CategorizeTier(f.ts, now) = "daily"
          /\ now - g.ts = 365 * Day /\ CategorizeTier(g.ts, now) = "quarterly"
          /\ now - h.ts = 365 * Day + 1 /\ CategorizeTier(h.ts, now) = "yearly"

\* ----------------------------------------------------------------------- C28
\* the files RotateBackups marked for deletion
Marked == Range(rotQueue) \cup { deleteLog[j].file : j \in 1..Len(deleteLog) }

\* the backups of the directory whose age falls into a tier's window
OfAgeTier(tier) == { f \in DirAtStart : AgeTier(now - f.ts) = tier }

\* C28: of a tier with retention N > 0 holding M > N backups exactly the
\* M - N oldest are marked for deletion; of any other tier (within its
\* retention, retention 0, or not configured) none is
C28_AgeRetentionKeepsNewest ==
    Categorized =>
        \A i \in 1..Len(TierOrder) :
           LET files == OfAgeTier(TierOrder[i])
               M == Cardinality(files)
               N == IF TierOrder[i] \in ConfiguredTiers
                       THEN RetentionOf(TierOrder[i]) ELSE 0
           IN  Marked \cap files =
                  IF N > 0 /\ M > N
                     THEN { f \in files :
                              Cardinality({ g \in files : g.ts < f.ts }) < M - N }
                     ELSE {}

\* a tier held more backups than its retention and lost the oldest, while a
\* backup of a tier without a retention entry stayed unmarked
C28_Witness ==
    /\ Categorized
    /\ \E t \in ConfiguredTiers :
          /\ RetentionOf(t) > 0
          /\ Cardinality(OfAgeTier(t)) > RetentionOf(t)
          /\ Marked \cap OfAgeTier(t) # {}
    /\ \E f \in DirAtStart : /\ AgeTier(now - f.ts) \notin ConfiguredTiers
                             /\ f \notin Marked

\* ----------------------------------------------------------------------- C29
\* the non-empty backups without a tier tag whose age puts them in a tier
\* and is below that tier's interval
RecentUntagged(tier) ==
    { f \in backupFiles : /\ f.tier = NoTier
                          /\ f.size > 0
                          /\ CategorizeTier(f.ts, now) = tier
                          /\ now - f.ts < TierInterval(tier) }

\* C29: a backup without a tier tag counts as a backup of the tier inferred
\* for it: when it is younger than that tier's interval, GetDueTiers does
\* not report the tier due
C29_UntaggedBackupMakesTierNotDue ==
    (pc = "sched_done" /\ ~globErr) =>
        \A tier \in ConfiguredTiers :
           RecentUntagged(tier) # {} => tier \notin Range(schedule.Due)

\* ----------------------------------------------------------------------- C30
\* C30: a database whose configuration says "enabled": false is skipped by
\* the run (no dump, no rotation), and a database that leaves the field out
\* is processed
C30_DisabledDatabaseIsSkipped ==
    pc = "main_done" =>
        \A i \in DOMAIN databases :
           /\ databases[i].enabled = "false" => dumpLog[i] = "skipped"
           /\ databases[i].enabled = "omitted" => dumpLog[i] # "skipped"

\* ----------------------------------------------------------------------- C31
\* the files of the directory that carry the tier's tag and have no content
EmptyTagged(tier) == { f \in backupFiles : f.tier = tier /\ f.size = 0 }

\* C31: a 0-byte file tagged with a tier is never the most recent backup of
\* that tier: a configured tier whose only tagged files are 0-byte is
\* reported due, and whether a tier is due is what it would be with its
\* 0-byte files removed from the directory
C31_ZeroByteBackupIsAbsent ==
    pc = "sched_done" =>
        \A tier \in ConfiguredTiers :
           /\ (EmptyTagged(tier) # {} /\ PriorBackups(tier) = {})
                 => tier \in Range(schedule.Due)
           /\ (tier \in Range(schedule.Due))
                 <=> CheckTier(tier, backupFiles \ EmptyTagged(tier),
                               now, globErr).due
           /\ (tier \notin Range(schedule.Due) /\ tier # "yearly")
                 => \E f \in PriorBackups(tier) :
                       schedule.Next[tier] = f.ts + TierInterval(tier)

\* the directory can be inspected; one tier has only a 0-byte file younger
\* than its interval and is due, another has a non-empty backup and is not
C31_Witness ==
    /\ pc = "sched_done"
    /\ ~globErr
    /\ \E t1, t2 \in ConfiguredTiers :
          /\ t1 # t2
          /\ PriorBackups(t1) = {}
          /\ \E f \in EmptyTagged(t1) : now - f.ts < TierInterval(t1)
          /\ t1 \in Range(schedule.Due)
          /\ PriorBackups(t2) # {}
          /\ t2 \notin Range(schedule.Due)

\* ----------------------------------------------------------------------- C32
\* the tiers backend b was listed for during rotation
ListedOn(b) ==
    { listLog[i].tier : i \in { k \in 1..Len(listLog) : listLog[k].backend = b } }

\* the run is past its rotation, which had a policy to apply
RotationOver ==
    /\ pc \in { "closing", "done" }
    /\ VerdictReached
    /\ Len(result.TiersCompleted) > 0
    /\ retentionTiers # << >>

\* C32: after a run with a completed tier (and a retention policy), the
\* rotation engine is run on every backend of the run: one that returns an
\* error does not keep the later backends from being listed for every tier,
\* and no step of the rotation changes the Result of the run, which stays
\* the verdict of the loop over the due tiers.
C32_RotationIsIndependentPerBackend ==
    /\ [](RotationOver =>
            /\ \A b \in Range(backends) :
                  /\ rotReturned[b] # "not_called"
                  /\ retentionTiers[1].Tier \in ListedOn(b)
                  /\ rotReturned[b] = "nil" => ListedOn(b) = ConfiguredTiers
            /\ result.Success <=> (Len(result.TiersFailed) = 0)
            /\ (result.Error = NoErr) <=> (Len(result.TiersFailed) = 0)
            /\ result.Error \in { NoErr, "tiers_failed" })
    /\ [][(pc \in { "rotate", "rotate_delete" }) => (result' = result)]_vars

\* the run is over and reported successful; rotation failed on the first
\* backend (its List failed) and then deleted a file on the second backend
C32_Witness ==
    /\ pc = "done"
    /\ Len(backends) = 2
    /\ rotReturned[backends[1]] \notin { "not_called", "nil" }
    /\ rotReturned[backends[2]] = "nil"
    /\ \E k \in 1..Len(deleteLog) :
          deleteLog[k].backend = backends[2] /\ deleteLog[k].err = NoErr
    /\ result.Success
    /\ result.Error = NoErr
    /\ Len(result.TiersCompleted) > 0

\* ----------------------------------------------------------------------- C33
\* C33: when BackupDatabase returns, the file of every tier uploaded in the
\* run is still on every backend whose Write of it succeeded: rotation has
\* not deleted it, whatever the retention counts are.
C33_RotationKeepsTheNewBackup ==
    pc \in { "closing", "done" } =>
        \A tier \in DOMAIN result.BackendResults :
            LET rs == result.BackendResults[tier]
            IN  \A i \in 1..Len(rs) :
                   rs[i].Success => NewFile(tier) \in store[rs[i].BackendName]

\* ----------------------------------------------------------------------- C34
\* C34: after a run with timestamp t completed tier T, GetDueTiers asked
\* about an instant in [t, t + interval(T)) does not report T due,
\* whichever destinations took the backup.
C34_CompletedTierIsNotDue ==
    pc = "agree_done" =>
        \A tier \in Range(result.TiersCompleted) \cap ConfiguredTiers :
            (RunTime <= now /\ now < RunTime + TierInterval(tier))
                => tier \notin Range(schedule.Due)

\* ----------------------------------------------------------------------- C35
\* C35: the schedule GetDueTiers returns gives every configured tier a Next
\* time; a due tier has Next = now and a tier that is not due has a Next
\* strictly later than now.
C35_ScheduleIsConsistent ==
    pc = "sched_done" =>
        \A tier \in ConfiguredTiers :
            /\ tier \in DOMAIN schedule.Next
            /\ tier \in Range(schedule.Due) => schedule.Next[tier] = now
            /\ tier \notin Range(schedule.Due) => schedule.Next[tier] > now

\* ----------------------------------------------------------------------- C36
\* C36: RotateBackups for database D deletes only files whose decoded
\* database name is D; the backups of another database, also one whose name
\* begins with D, are still in the directory when it returns.
C36_RotationTouchesOnlyItsDatabase ==
    /\ \A j \in 1..Len(deleteLog) : deleteLog[j].file.db = RotatedDb
    /\ \A f \in DirAtStart : f.db # RotatedDb => f \in backupFiles

\* ----------------------------------------------------------------------- C37
\* C37: WithRetry returns nil only if some call of op returned nil, for
\* every RetryConfig, MaxAttempts <= 0 included.
C37_NilOnlyAfterASuccessfulCall ==
    (pc = "retry_done" /\ retryResult = NoErr) =>
        \E i \in 1..Len(opErrs) : opErrs[i] = NoErr

\* ----------------------------------------------------------------------- C38
\* C38: when a run that got past the backends and the temp directory
\* returns, every due tier is in exactly one of TiersCompleted and
\* TiersFailed, and the two lists together are as long as dueTiers.
C38_DueTiersArePartitioned ==
    (pc \in { "closing", "done" } /\ VerdictReached) =>
        /\ \A tier \in Range(dueTiers) :
              (tier \in Range(result.TiersCompleted))
                 <=> (tier \notin Range(result.TiersFailed))
        /\ Range(result.TiersCompleted) \cup Range(result.TiersFailed)
              = Range(dueTiers)
        /\ Len(result.TiersCompleted) + Len(result.TiersFailed) = Len(dueTiers)

\* a returned run over two due tiers: the dump of the first failed, the
\* second was uploaded, and each is in its own list
C38_Witness ==
    /\ pc = "done"
    /\ Len(dueTiers) = 2
    /\ result.TiersFailed = << dueTiers[1] >>
    /\ result.TiersCompleted = << dueTiers[2] >>
    /\ dueTiers[1] \notin DOMAIN result.BackendResults
    /\ dueTiers[2] \in DOMAIN result.BackendResults

\* ----------------------------------------------------------------------- C39
\* a backend call of this Upload or Delete never returned
SomeCallHung == \E b \in Range(backends) : gpc[b] = "hung"

\* C39: a goroutine that is about to send its result always finds room in
\* resultsChan, and Upload and Delete return unless a backend call never
\* returns, for every number of backends and every interleaving.
C39_MultiUploaderTerminates ==
    /\ [](\A b \in Range(backends) :
             gpc[b] = "written" => Len(resultsChan) < ChanCapacity)
    /\ <>(SomeCallHung \/ pc = "multi_returned")

\* Delete was called on as many backends as the bound allows, one of its
\* calls failed, and it returned one result per backend
C39_Witness ==
    /\ pc = "multi_returned"
    /\ method = "Delete"
    /\ Len(backends) = MaxUploadBackends
    /\ Len(uploadResults) = Len(backends)
    /\ \E b \in Range(backends) : gerr[b] # NoErr
    /\ \A b \in Range(backends) : gpc[b] = "done"

====
